---------------------------- MODULE Spec2Model ----------------------------
(***************************************************************************)
(* A model of the signal-detection engine of valuation_tool.               *)
(*                                                                         *)
(* Strings are TLA+ strings; positions are 0-based as in the Python        *)
(* source, and Slice(s, a, b) is the Python slice s[a:b].                  *)
(* Confidences are fixed-point numbers in hundredths (0.85 is 85), so the  *)
(* arithmetic of the cascade is exact decimal arithmetic.                  *)
(***************************************************************************)
EXTENDS Integers, Sequences, FiniteSets, TLC

VARIABLES content, magnitude, hash_seed, pc,
          positive_matches, negative_matches, insignificant_matches, result,
          tables, log,
          similarity, change_magnitude,
          snapshots, cd_next, cd_result, change_records, cd_locals,
          previous, current, changes,
          news_company, llm_enabled, raw_results, news_next, news_articles,
          articles_stored, news_locals,
          keyword_result, llm_response, llm_validation,
          max_attempts, fn_outcomes, attempt_number, retry_outcome,
          company_leadership, last_leaders, leaders, extraction_result,
          previous_leaders, runs

\* The module-level tables of significance.py as the process holds them, and
\* the calls of analyze_significance the process has made so far.
callVars == <<tables, log>>

\* One call of analyze_significance: its arguments, the order the process's
\* string hashing gives a set of categories, and what the call computes.
sigVars == <<content, magnitude, hash_seed, pc,
             positive_matches, negative_matches, insignificant_matches, result>>

\* The argument and the return value of one call of _calculate_magnitude.
magVars == <<similarity, change_magnitude>>

\* detect_changes: the latest two snapshots of every company, the company
\* the loop handles next, the ExtractionResult, the stored change records
\* and the local variables of the latest iteration.
cdVars == <<snapshots, cd_next, cd_result, change_records, cd_locals>>

\* One call of detect_leadership_changes: its two arguments and the list
\* it returns.
ldVars == <<previous, current, changes>>

\* search_news_for_company: the company and the configuration, the search
\* results, the result the loop handles next, the news_articles table, the
\* counter of stored articles and the local variables of the latest
\* iteration.
newsVars == <<news_company, llm_enabled, raw_results, news_next, news_articles,
              articles_stored, news_locals>>

\* One call of validate_with_llm: the keyword-based result it is given, what
\* the LLM capability does and what the call returns.
llmVars == <<keyword_result, llm_response, llm_validation>>

\* One call of a function wrapped by with_retry(max_attempts): what the
\* wrapped function does at each invocation, the number of invocations made
\* and how the call ended.
retryVars == <<max_attempts, fn_outcomes, attempt_number, retry_outcome>>

\* Runs of extract_leadership_for_company for one company: the rows of the
\* table company_leadership, the leadership roster the run before the latest
\* one extracted, what the latest run extracted, its result, the current
\* leaders it read from the table at its start, and the number of runs.
elVars == <<company_leadership, last_leaders, leaders, extraction_result,
            previous_leaders, runs>>

vars == <<sigVars, callVars, magVars, cdVars, ldVars, newsVars, llmVars, retryVars, elVars>>

(***************************************************************************)
(* Bounds of the model.                                                    *)
(***************************************************************************)
\* The number of fragments a content string is composed of, at most.
MaxParts == 2

(***************************************************************************)
(* Python built-ins used by the source.                                    *)
(***************************************************************************)
Min(a, b) == IF a <= b THEN a ELSE b

Max(a, b) == IF a >= b THEN a ELSE b

\* s[a:b] for 0 <= a, b (Python clips b to len(s); a >= b gives "").
Slice(s, a, b) == SubSeq(s, a + 1, Min(b, Len(s)))

\* s.find(sub, idx): the least position >= idx where sub occurs, or -1.
Find(s, sub, idx) ==
  LET found == {p \in idx..(Len(s) - Len(sub)) :
                  Slice(s, p, p + Len(sub)) = sub}
  IN  IF found = {} THEN -1
      ELSE CHOOSE p \in found : \A q \in found : p <= q

\* sub in s
Contains(s, sub) == Find(s, sub, 0) # -1

UpperLetters == "ABCDEFGHIJKLMNOPQRSTUVWXYZ"

LowerLetters == "abcdefghijklmnopqrstuvwxyz"

\* c.lower() for one character.
LowerChar(c) ==
  LET i == Find(UpperLetters, c, 0)
  IN  IF i = -1 THEN c ELSE Slice(LowerLetters, i, i + 1)

\* s.lower()
RECURSIVE Lower(_)
Lower(s) ==
  IF Len(s) = 0 THEN s
  ELSE IF Len(s) = 1 THEN LowerChar(s)
  ELSE LET half == Len(s) \div 2
       IN  Lower(Slice(s, 0, half)) \o Lower(Slice(s, half, Len(s)))

\* The whitespace characters a content string of the model can hold.
Whitespace == {" ", "\t", "\n", "\r"}

\* s.split(): the maximal runs of non-whitespace characters of s, in order.
RECURSIVE SplitFrom(_, _, _)
SplitFrom(s, i, word) ==
  IF i >= Len(s)
    THEN IF word = "" THEN <<>> ELSE <<word>>
    ELSE LET c == Slice(s, i, i + 1)
         IN  IF c \in Whitespace
               THEN (IF word = "" THEN <<>> ELSE <<word>>) \o SplitFrom(s, i + 1, "")
               ELSE SplitFrom(s, i + 1, word \o c)

\* s.strip()
RECURSIVE Strip(_)
Strip(s) ==
  IF Len(s) = 0 THEN s
  ELSE IF Slice(s, 0, 1) \in Whitespace THEN Strip(Slice(s, 1, Len(s)))
  ELSE IF Slice(s, Len(s) - 1, Len(s)) \in Whitespace THEN Strip(Slice(s, 0, Len(s) - 1))
  ELSE s

Split(s) == SplitFrom(s, 0, "")

\* The elements of a sequence.
Range(seq) == {seq[i] : i \in 1..Len(seq)}

(***************************************************************************)
(* Keyword dictionaries (a dict keeps its insertion order).                *)
(***************************************************************************)
POSITIVE_KEYWORDS == <<
  [category |-> "funding_investment", keywords |-> <<
     "series a", "series b", "series c", "series d", "series e",
     "seed round", "funding round", "raised", "funding",
     "venture capital", "valuation", "investment round",
     "pre-seed", "angel round">>],
  [category |-> "product_launch", keywords |-> <<
     "launched", "launch", "beta release", "general availability",
     "new product", "product release", "now available", "go live">>],
  [category |-> "growth_success", keywords |-> <<
     "revenue growth", "milestone", "profitable", "record revenue",
     "year over year growth", "customer growth", "user growth">>],
  [category |-> "partnerships", keywords |-> <<
     "partnership", "joint venture", "strategic alliance",
     "collaboration", "partner">>],
  [category |-> "expansion", keywords |-> <<
     "new office", "hiring", "expansion", "international expansion",
     "new market", "headcount growth", "opening new">>],
  [category |-> "recognition", keywords |-> <<
     "innovation award", "top 10", "top 50", "best places to work",
     "award", "recognized">>],
  [category |-> "ipo_exit", keywords |-> <<
     "filed s-1", "nasdaq", "nyse", "ipo", "public offering",
     "going public", "spac">>] >>

NEGATIVE_KEYWORDS == <<
  [category |-> "closure", keywords |-> <<
     "shut down", "shutdown", "ceased operations", "winding down",
     "closing", "closed", "dissolved">>],
  [category |-> "layoffs_downsizing", keywords |-> <<
     "layoffs", "laid off", "lays off", "workforce reduction",
     "job cuts", "downsizing", "restructuring", "rif">>],
  [category |-> "financial_distress", keywords |-> <<
     "chapter 11", "chapter 7", "bankruptcy", "insolvent",
     "cash crunch", "default", "debt crisis">>],
  [category |-> "legal_issues", keywords |-> <<
     "lawsuit", "investigation", "settlement", "sued",
     "regulatory action", "fine", "penalty">>],
  [category |-> "security_breach", keywords |-> <<
     "data breach", "hacked", "ransomware", "cyber attack",
     "security incident", "compromised">>],
  [category |-> "acquisition", keywords |-> <<
     "acquired by", "merged with", "sold to",
     "acquisition", "takeover">>],
  [category |-> "leadership_changes", keywords |-> <<
     "ceo resigned", "ceo departed", "founder left", "cto left",
     "stepping down", "leadership transition", "new ceo",
     "retired", "resigned">>],
  [category |-> "product_failures", keywords |-> <<
     "product recall", "discontinued", "sunset",
     "end of life", "deprecate">>],
  [category |-> "market_exit", keywords |-> <<
     "exiting market", "market withdrawal", "divesting",
     "pulling out of">>] >>

\* Module text is ASCII: the copyright sign, the third copyright_year pattern
\* of the source, is written "(c)", which no content string of the model holds
\* (as no ASCII content holds the sign).
INSIGNIFICANT_PATTERNS == <<
  [category |-> "css_styling", keywords |-> <<
     "font-family", "font-size", "background-color", "color:",
     "margin:", "padding:", "border:", "text-align">>],
  [category |-> "copyright_year", keywords |-> <<
     "copyright", "all rights reserved", "(c)">>],
  [category |-> "tracking_analytics", keywords |-> <<
     "google-analytics", "gtag", "tracking code", "analytics",
     "pixel", "facebook pixel">>] >>

FALSE_POSITIVE_PATTERNS == <<
  "talent acquisition",
  "customer acquisition",
  "data acquisition",
  "user acquisition",
  "funding opportunities",
  "funding sources",
  "self-funded" >>

NEGATION_WORDS == {"no", "not", "never", "without", "lacks"}


(***************************************************************************)
(* Keyword detection.                                                      *)
(***************************************************************************)
KeywordMatch(keyword, position, context_before, context_after, category, is_negated, is_false_positive) ==
  [keyword |-> keyword, position |-> position,
   context_before |-> context_before, context_after |-> context_after,
   category |-> category, is_negated |-> is_negated,
   is_false_positive |-> is_false_positive]

\* Whether a keyword is preceded by a negation word within 20 characters.
_is_negated(content_lower, keyword_pos) ==
  LET prefix == Strip(Slice(content_lower, Max(0, keyword_pos - 20), keyword_pos))
      words  == Split(prefix)
  IN  \E i \in 1..Len(words) : words[i] \in NEGATION_WORDS

\* Whether a keyword match lies within 30 characters of a benign collocation.
_is_false_positive(content_lower, keyword_pos, keyword) ==
  LET start   == Max(0, keyword_pos - 30)
      end     == Min(Len(content_lower), keyword_pos + Len(keyword) + 30)
      context == Slice(content_lower, start, end)
  IN  \E i \in 1..Len(FALSE_POSITIVE_PATTERNS) :
         Contains(context, FALSE_POSITIVE_PATTERNS[i])

\* The while loop of _find_keywords for one keyword, from index idx on.
RECURSIVE FindOccurrences(_, _, _, _, _)
FindOccurrences(text, content_lower, category, keyword, idx) ==
  LET pos == Find(content_lower, keyword, idx)
  IN  IF pos = -1 THEN <<>>
      ELSE LET start == Max(0, pos - 50)
               end   == Min(Len(text), pos + Len(keyword) + 50)
               match == KeywordMatch(
                          keyword, pos,
                          Slice(text, start, pos),
                          Slice(text, pos + Len(keyword), end),
                          category,
                          _is_negated(content_lower, pos),
                          _is_false_positive(content_lower, pos, keyword))
           IN  <<match>> \o FindOccurrences(text, content_lower, category,
                                            keyword, pos + Len(keyword))

\* The inner for loop of _find_keywords: the keywords of one category, from
\* the k-th on.
RECURSIVE FindInCategory(_, _, _, _, _)
FindInCategory(text, content_lower, category, keywords, k) ==
  IF k > Len(keywords) THEN <<>>
  ELSE FindOccurrences(text, content_lower, category, keywords[k], 0)
       \o FindInCategory(text, content_lower, category, keywords, k + 1)

\* The outer for loop of _find_keywords: the categories, from the c-th on.
RECURSIVE FindFrom(_, _, _, _)
FindFrom(text, content_lower, keyword_dict, c) ==
  IF c > Len(keyword_dict) THEN <<>>
  ELSE FindInCategory(text, content_lower, keyword_dict[c].category,
                      keyword_dict[c].keywords, 1)
       \o FindFrom(text, content_lower, keyword_dict, c + 1)

_find_keywords(text, keyword_dict) ==
  FindFrom(text, Lower(text), keyword_dict, 1)

\* The inner for loop of _find_insignificant_patterns: one match per pattern
\* that occurs, with the defaults of KeywordMatch for the other fields.
RECURSIVE InsignificantInCategory(_, _, _, _)
InsignificantInCategory(content_lower, category, patterns, k) ==
  IF k > Len(patterns) THEN <<>>
  ELSE (IF Contains(content_lower, patterns[k])
          THEN <<KeywordMatch(patterns[k], 0, "", "", category, FALSE, FALSE)>>
          ELSE <<>>)
       \o InsignificantInCategory(content_lower, category, patterns, k + 1)

\* The outer for loop of _find_insignificant_patterns.
RECURSIVE InsignificantFrom(_, _)
InsignificantFrom(content_lower, c) ==
  IF c > Len(INSIGNIFICANT_PATTERNS) THEN <<>>
  ELSE InsignificantInCategory(content_lower, INSIGNIFICANT_PATTERNS[c].category,
                               INSIGNIFICANT_PATTERNS[c].keywords, 1)
       \o InsignificantFrom(content_lower, c + 1)

_find_insignificant_patterns(text) == InsignificantFrom(Lower(text), 1)

(***************************************************************************)
(* Classification.                                                         *)
(***************************************************************************)
\* A variant with strict thresholds.
_classify_sentiment_strict(positive_count, negative_count) ==
  IF positive_count > 2 /\ negative_count > 2 THEN "mixed"
  ELSE IF positive_count > 2 THEN "positive"
  ELSE IF negative_count > 2 THEN "negative"
  ELSE "neutral"

_classify_sentiment(positive_count, negative_count) ==
  IF positive_count >= 2 /\ negative_count >= 2 THEN "mixed"
  ELSE IF positive_count >= 2 THEN "positive"
  ELSE IF negative_count >= 2 THEN "negative"
  ELSE "neutral"

\* The model of SignificanceResult: pydantic rejects a confidence outside
\* [0, 1] with a ValidationError, recorded in the field error.
SignificanceResult(classification, sentiment, confidence, matched_keywords, matched_categories) ==
  [classification |-> classification, sentiment |-> sentiment,
   confidence |-> confidence, matched_keywords |-> matched_keywords,
   matched_categories |-> matched_categories, notes |-> "None",
   error |-> IF 0 <= confidence /\ confidence <= 100
               THEN "None" ELSE "ValidationError"]

\* [m for m in matches if not m.is_negated and not m.is_false_positive]
Effective(matches) ==
  SelectSeq(matches, LAMBDA m : ~m.is_negated /\ ~m.is_false_positive)

\* [m.keyword for m in matches]
RECURSIVE Keywords(_)
Keywords(matches) ==
  IF matches = <<>> THEN <<>>
  ELSE <<Head(matches).keyword>> \o Keywords(Tail(matches))

\* [m.category for m in matches]
RECURSIVE Categories(_)
Categories(matches) ==
  IF matches = <<>> THEN <<>>
  ELSE <<Head(matches).category>> \o Categories(Tail(matches))

\* sum(1 for m in matches if m.is_negated)
CountNegated(matches) == Len(SelectSeq(matches, LAMBDA m : m.is_negated))

\* sum(1 for m in matches if m.is_false_positive)
CountFalsePositive(matches) ==
  Len(SelectSeq(matches, LAMBDA m : m.is_false_positive))

\* The names of the positive and the negative categories, in dict order.
CategoryNames == Categories(POSITIVE_KEYWORDS) \o Categories(NEGATIVE_KEYWORDS)

\* list(S) for a set S of category names. The order in which Python iterates a
\* set of strings depends on the process's string hash seed: seed 0 lists the
\* names in dict order, seed 1 in the reverse order.
RECURSIVE SetToList(_, _, _)
SetToList(S, seed, i) ==
  IF i > Len(CategoryNames) THEN <<>>
  ELSE LET name == CategoryNames[IF seed = 0 THEN i
                                 ELSE Len(CategoryNames) + 1 - i]
       IN  (IF name \in S THEN <<name>> ELSE <<>>) \o SetToList(S, seed, i + 1)

\* A variant without the lower clamp.
PenalisedNoFloor(confidence, negated_count, fp_count) ==
  Min(100, confidence - (20 * negated_count + 30 * fp_count))

\* confidence -= 0.20 * negated_count + 0.30 * fp_count
\* confidence = max(0.0, min(1.0, confidence))
Penalised(confidence, negated_count, fp_count) ==
  Max(0, Min(100, confidence - (20 * negated_count + 30 * fp_count)))

\* A variant that tests the wrong magnitude.
Rule1AppliesMajor(total_keyword_count, insignificant, mag) ==
  total_keyword_count = 0 /\ insignificant # <<>> /\ mag = "major"

\* A variant that forgets the keyword count.
Rule1AppliesIgnoringKeywords(total_keyword_count, insignificant, mag) ==
  insignificant # <<>> /\ mag = "minor"

Rule1Applies(total_keyword_count, insignificant, mag) ==
  total_keyword_count = 0 /\ insignificant # <<>> /\ mag = "minor"

\* A variant without the cap of 0.95.
Rule2ConfidenceUncapped(neg_count, negated_count, fp_count) ==
  Penalised(80 + 5 * (neg_count - 2), negated_count, fp_count)

Rule2Confidence(neg_count, negated_count, fp_count) ==
  Penalised(Min(80 + 5 * (neg_count - 2), 95), negated_count, fp_count)

\* A variant with the step of rule 2.
Rule3ConfidenceStep5(pos_count, negated_count, fp_count) ==
  Penalised(Min(80 + 5 * (pos_count - 2), 90), negated_count, fp_count)

Rule3Confidence(pos_count, negated_count, fp_count) ==
  Penalised(Min(80 + 3 * (pos_count - 2), 90), negated_count, fp_count)

\* A variant that takes every magnitude but minor for major.
Rule4AppliesNotMinor(total_keyword_count, mag) ==
  total_keyword_count >= 1 /\ mag # "minor"

Rule4Applies(total_keyword_count, mag) ==
  total_keyword_count >= 1 /\ mag = "major"

\* A variant off by one.
Rule5AppliesFromZero(total_keyword_count) == total_keyword_count >= 0

Rule5Applies(total_keyword_count) == total_keyword_count >= 1

\* The body of analyze_significance after the three searches.
ClassifyMatches(positive, negative, insignificant, mag, seed) ==
  LET effective_positive  == Effective(positive)
      effective_negative  == Effective(negative)
      pos_count           == Len(effective_positive)
      neg_count           == Len(effective_negative)
      total_keyword_count == pos_count + neg_count
      all_keywords        == Keywords(effective_positive \o effective_negative)
      all_categories      ==
        SetToList(Range(Categories(effective_positive \o effective_negative)),
                  seed, 1)
      negated_count       == CountNegated(positive \o negative)
      fp_count            == CountFalsePositive(positive \o negative)
      sentiment           == _classify_sentiment(pos_count, neg_count)
  IN  IF Rule1Applies(total_keyword_count, insignificant, mag)
        THEN SignificanceResult("insignificant", "neutral", 85,
                                Keywords(insignificant),
                                Categories(insignificant))
      ELSE IF neg_count >= 2
        THEN SignificanceResult("significant", sentiment,
                                Rule2Confidence(neg_count, negated_count, fp_count),
                                all_keywords, all_categories)
      ELSE IF pos_count >= 2
        THEN SignificanceResult("significant", sentiment,
                                Rule3Confidence(pos_count, negated_count, fp_count),
                                all_keywords, all_categories)
      ELSE IF Rule4Applies(total_keyword_count, mag)
        THEN SignificanceResult("significant", sentiment,
                                Penalised(70, negated_count, fp_count),
                                all_keywords, all_categories)
      ELSE IF Rule5Applies(total_keyword_count)
        THEN SignificanceResult("uncertain", sentiment,
                                Penalised(50, negated_count, fp_count),
                                all_keywords, all_categories)
      ELSE SignificanceResult("insignificant", "neutral", 75, <<>>, <<>>)

analyze_significance(text, mag, seed) ==
  ClassifyMatches(_find_keywords(text, POSITIVE_KEYWORDS),
                  _find_keywords(text, NEGATIVE_KEYWORDS),
                  _find_insignificant_patterns(text), mag, seed)

(***************************************************************************)
(* The inputs of the model: content strings composed of at most MaxParts   *)
(* fragments, every magnitude, both hash orders.                           *)
(***************************************************************************)
Filler == "the quick brown fox jumps over the lazy dog "

Parts ==
  { "layoffs ", "not ", "never had layoffs ", "hiring ",
    "Raised Series B funding ", "CEO resigned after lawsuit ",
    "talent acquisition ", "font-size ", "google-analytics ", Filler }

RECURSIVE Compositions(_)
Compositions(n) ==
  IF n = 0 THEN {""}
  ELSE LET shorter == Compositions(n - 1)
       IN  shorter \cup {c \o p : c \in shorter, p \in Parts}

Contents == Compositions(MaxParts)

ChangeMagnitude == {"minor", "moderate", "major"}

NoResult == [error |-> "NoResult"]

\* The five module-level tables, as they are once significance.py is imported.
Tables ==
  [positive      |-> POSITIVE_KEYWORDS,
   negative      |-> NEGATIVE_KEYWORDS,
   insignificant |-> INSIGNIFICANT_PATTERNS,
   false_positive |-> FALSE_POSITIVE_PATTERNS,
   negation      |-> NEGATION_WORDS]

\* No call of analyze_significance yet.
IdleSignificance ==
  /\ content = ""
  /\ magnitude = "minor"
  /\ hash_seed = 0
  /\ pc = "call"
  /\ positive_matches = <<>>
  /\ negative_matches = <<>>
  /\ insignificant_matches = <<>>
  /\ result = NoResult

\* A similarity ratio is the quotient num/den of two integers, as
\* SequenceMatcher.ratio() computes it (2.0 * matches / length); 1.0 is 1/1
\* and 0.0 is 0/1.
Ratio(num, den) == [num |-> num, den |-> den]

\* No call of _calculate_magnitude yet.
IdleMagnitude ==
  /\ similarity = Ratio(1, 1)
  /\ change_magnitude = "None"

\* ExtractionResult()
ExtractionResult ==
  [processed |-> 0, successful |-> 0, failed |-> 0, skipped |-> 0,
   errors |-> <<>>]

\* The local variables of an iteration of detect_changes that computed
\* nothing.
NoLocals == [company |-> 0, outcome |-> "none"]

\* No run of detect_changes.
IdleChangeDetection ==
  /\ snapshots = <<>>
  /\ cd_next = 1
  /\ cd_result = ExtractionResult
  /\ change_records = <<>>
  /\ cd_locals = NoLocals

\* What changes holds before detect_leadership_changes has returned.
NotReturned == <<[change_type |-> "not_returned"]>>

\* No call of detect_leadership_changes.
IdleLeadership ==
  /\ previous = <<>>
  /\ current = <<>>
  /\ changes = NotReturned

\* The local variables of search_news_for_company before its loop.
NoArticle == [article |-> 0, outcome |-> "none"]

\* No run of search_news_for_company.
IdleNews ==
  /\ news_company = [name |-> "", homepage_url |-> ""]
  /\ llm_enabled = FALSE
  /\ raw_results = <<>>
  /\ news_next = 1
  /\ news_articles = <<>>
  /\ articles_stored = 0
  /\ news_locals = NoArticle

\* validate_with_llm has not returned.
NotValidated == [returned |-> "not_returned"]

\* No call of validate_with_llm.
IdleLlm ==
  /\ keyword_result = NoResult
  /\ llm_response = [kind |-> "none"]
  /\ llm_validation = NotValidated

\* The wrapped call has not ended.
Running == [kind |-> "running"]

\* No call of a function wrapped by with_retry.
IdleRetry ==
  /\ max_attempts = 1
  /\ fn_outcomes = <<>>
  /\ attempt_number = 0
  /\ retry_outcome = Running

\* extract_leadership_for_company has not run.
NotExtracted == [method_used |-> "not_run"]

\* No run of extract_leadership_for_company and an empty table.
IdleExtraction ==
  /\ company_leadership = <<>>
  /\ last_leaders = <<>>
  /\ leaders = <<>>
  /\ extraction_result = NotExtracted
  /\ previous_leaders = <<>>
  /\ runs = 0

\* A process that has imported the module and made no call yet.
IdleCalls ==
  /\ tables = Tables
  /\ log = <<>>

(***************************************************************************)
(* The state machine: one call of analyze_significance.                    *)
(***************************************************************************)
InitSignificance ==
  /\ content \in Contents
  /\ magnitude \in ChangeMagnitude
  /\ hash_seed \in {0, 1}
  /\ pc = "call"
  /\ positive_matches = <<>>
  /\ negative_matches = <<>>
  /\ insignificant_matches = <<>>
  /\ result = NoResult
  /\ IdleCalls
  /\ IdleMagnitude
  /\ IdleChangeDetection
  /\ IdleLeadership
  /\ IdleNews
  /\ IdleLlm
  /\ IdleRetry
  /\ IdleExtraction

AnalyzeSignificance ==
  /\ pc = "call"
  /\ positive_matches' = _find_keywords(content, POSITIVE_KEYWORDS)
  /\ negative_matches' = _find_keywords(content, NEGATIVE_KEYWORDS)
  /\ insignificant_matches' = _find_insignificant_patterns(content)
  /\ result' = ClassifyMatches(positive_matches', negative_matches',
                               insignificant_matches', magnitude, hash_seed)
  /\ pc' = "done"
  /\ UNCHANGED <<content, magnitude, hash_seed, callVars, magVars, cdVars,
                 ldVars, newsVars, llmVars, retryVars, elVars>>

NextSignificance == AnalyzeSignificance

SpecSignificance == InitSignificance /\ [][NextSignificance]_vars

(***************************************************************************)
(* What the properties speak of, read off the state after the call.        *)
(***************************************************************************)
Done == pc = "done"

RawMatches == positive_matches \o negative_matches

IsEffective(m) == ~m.is_negated /\ ~m.is_false_positive

PosCount ==
  Cardinality({i \in 1..Len(positive_matches) : IsEffective(positive_matches[i])})

NegCount ==
  Cardinality({i \in 1..Len(negative_matches) : IsEffective(negative_matches[i])})

\* N and F: the raw matches of both taxonomies flagged negated, false positive.
RawNegated == Cardinality({i \in 1..Len(RawMatches) : RawMatches[i].is_negated})

RawFalsePositive ==
  Cardinality({i \in 1..Len(RawMatches) : RawMatches[i].is_false_positive})

PenaltyHundredths == 20 * RawNegated + 30 * RawFalsePositive

Clamp01(c) == IF c < 0 THEN 0 ELSE IF c > 100 THEN 100 ELSE c

\* Whether some pattern of the insignificant taxonomy occurs in the content.
InsignificantPresent ==
  \E c \in 1..Len(INSIGNIFICANT_PATTERNS) :
    \E k \in 1..Len(INSIGNIFICANT_PATTERNS[c].keywords) :
      Contains(Lower(content), INSIGNIFICANT_PATTERNS[c].keywords[k])

\* C1: whenever the effective negative count is at least 2, the result is
\* significant with confidence min(0.80 + 0.05 (neg - 2), 0.95) less 0.20 per
\* negated and 0.30 per false-positive raw match, clamped to [0, 1], whatever
\* the magnitude and the positive count.
C1_Rule2 ==
  (Done /\ NegCount >= 2) =>
    /\ result.error = "None"
    /\ result.classification = "significant"
    /\ result.confidence =
         Clamp01((IF 80 + 5 * (NegCount - 2) < 95 THEN 80 + 5 * (NegCount - 2)
                  ELSE 95) - PenaltyHundredths)

C1_Witness ==
  /\ Done /\ NegCount >= 2 /\ PenaltyHundredths > 0
  /\ result.confidence > 0 /\ result.confidence < 80

\* C2: whenever the effective negative count is below 2 and the effective
\* positive count is at least 2, the result is significant with confidence
\* min(0.80 + 0.03 (pos - 2), 0.90) less the same penalties, clamped.
C2_Rule3 ==
  (Done /\ NegCount < 2 /\ PosCount >= 2) =>
    /\ result.error = "None"
    /\ result.classification = "significant"
    /\ result.confidence =
         Clamp01((IF 80 + 3 * (PosCount - 2) < 90 THEN 80 + 3 * (PosCount - 2)
                  ELSE 90) - PenaltyHundredths)

C2_Witness ==
  /\ Done /\ NegCount < 2 /\ PosCount >= 2 /\ PenaltyHundredths > 0
  /\ result.confidence > 0 /\ result.confidence < 80

\* C3: when there is at least one effective keyword but neither effective count
\* reaches 2, magnitude major gives significant with base 0.70 and any other
\* magnitude gives uncertain with base 0.50, the base less the penalties,
\* clamped.
C3_Rules4And5 ==
  (Done /\ PosCount + NegCount >= 1 /\ NegCount < 2 /\ PosCount < 2) =>
    /\ result.error = "None"
    /\ magnitude = "major" =>
         /\ result.classification = "significant"
         /\ result.confidence = Clamp01(70 - PenaltyHundredths)
    /\ magnitude # "major" =>
         /\ result.classification = "uncertain"
         /\ result.confidence = Clamp01(50 - PenaltyHundredths)

C3_Witness ==
  /\ Done /\ PosCount + NegCount >= 1 /\ NegCount < 2 /\ PosCount < 2
  /\ magnitude = "major" /\ PenaltyHundredths > 0
  /\ result.classification = "significant" /\ result.confidence = 30

\* C4: with no effective positive or negative match, some insignificant
\* pattern in the content and magnitude minor, the result is insignificant,
\* neutral, confidence 0.85, and its evidence is the insignificant patterns
\* that occur in the content, and nothing else.
C4_Rule1 ==
  (Done /\ PosCount + NegCount = 0 /\ InsignificantPresent /\ magnitude = "minor") =>
    /\ result.error = "None"
    /\ result.classification = "insignificant"
    /\ result.sentiment = "neutral"
    /\ result.confidence = 85
    /\ result.matched_keywords # <<>>
    /\ \A i \in 1..Len(result.matched_keywords) :
         /\ Contains(Lower(content), result.matched_keywords[i])
         /\ \E c \in 1..Len(INSIGNIFICANT_PATTERNS) :
              result.matched_keywords[i] \in Range(INSIGNIFICANT_PATTERNS[c].keywords)
    /\ \A c \in 1..Len(INSIGNIFICANT_PATTERNS) :
         \A p \in Range(INSIGNIFICANT_PATTERNS[c].keywords) :
           Contains(Lower(content), p) => p \in Range(result.matched_keywords)

\* Rule 1 applied although the content holds a (negated) keyword.
C4_Witness ==
  /\ Done /\ PosCount + NegCount = 0 /\ InsignificantPresent /\ magnitude = "minor"
  /\ RawMatches # <<>>
  /\ result.confidence = 85

\* C5: when no rule 1-5 applies (no effective keyword, and no insignificant
\* pattern or a magnitude other than minor), the result is insignificant,
\* neutral, confidence 0.75, with no keywords and no categories.
C5_Rule6 ==
  (Done /\ PosCount + NegCount = 0 /\ ~(InsignificantPresent /\ magnitude = "minor")) =>
    /\ result.error = "None"
    /\ result.classification = "insignificant"
    /\ result.sentiment = "neutral"
    /\ result.confidence = 75
    /\ result.matched_keywords = <<>>
    /\ result.matched_categories = <<>>

\* Rule 6 applied to insignificant patterns only, the magnitude not minor.
C5_Witness ==
  /\ Done /\ PosCount + NegCount = 0 /\ InsignificantPresent
  /\ magnitude # "minor" /\ result.confidence = 75

\* The content without its negation words: every whitespace-delimited word of
\* NEGATION_WORDS is cut out, with the whitespace character that follows it.
NegationWordStarts(text_lower) ==
  {pw \in (0..Len(text_lower)) \X NEGATION_WORDS :
     LET p == pw[1]
         e == pw[1] + Len(pw[2])
     IN  /\ Slice(text_lower, p, e) = pw[2]
         /\ p = 0 \/ Slice(text_lower, p - 1, p) \in Whitespace
         /\ e >= Len(text_lower) \/ Slice(text_lower, e, e + 1) \in Whitespace}

RECURSIVE KeepOutside(_, _, _, _)
KeepOutside(text, cut, lo, hi) ==
  IF lo >= hi THEN ""
  ELSE IF hi = lo + 1 THEN (IF lo \in cut THEN "" ELSE Slice(text, lo, hi))
  ELSE LET mid == (lo + hi) \div 2
       IN  KeepOutside(text, cut, lo, mid) \o KeepOutside(text, cut, mid, hi)

WithoutNegationWords(text) ==
  LET starts == NegationWordStarts(Lower(text))
      cut    == UNION {pw[1]..(pw[1] + Len(pw[2])) : pw \in starts}
  IN  KeepOutside(text, cut, 0, Len(text))

\* C6: for a content with exactly one negative keyword, preceded by a negation
\* word within the 20-character window, the confidence is at most the
\* confidence of the same content without the negation word, at the same
\* magnitude.
C6_NegationMonotone ==
  (Done /\ Len(negative_matches) = 1 /\ negative_matches[1].is_negated) =>
    result.confidence <=
      analyze_significance(WithoutNegationWords(content), magnitude, hash_seed).confidence

\* C7: in every result of rules 2-5 the sentiment is decided by the effective
\* counts alone: mixed iff both are at least 2, positive iff only the positive
\* count is, negative iff only the negative count is, neutral otherwise.
C7_SentimentFromEffectiveCounts ==
  (Done /\ PosCount + NegCount >= 1) =>
    /\ result.sentiment = "mixed" <=> (PosCount >= 2 /\ NegCount >= 2)
    /\ result.sentiment = "positive" <=> (PosCount >= 2 /\ NegCount < 2)
    /\ result.sentiment = "negative" <=> (NegCount >= 2 /\ PosCount < 2)
    /\ result.sentiment = "neutral" <=> (PosCount < 2 /\ NegCount < 2)

\* Two raw negative matches, one of them negated: the sentiment stays neutral.
C7_Witness ==
  /\ Done /\ PosCount + NegCount >= 1
  /\ Len(negative_matches) >= 2 /\ NegCount < 2 /\ PosCount < 2
  /\ RawNegated >= 1
  /\ result.sentiment = "neutral"

\* C8: the confidence of every result lies in [0, 1] (so the result is
\* accepted by SignificanceResult), and no rule exceeds its cap.
C8_ConfidenceInUnitInterval ==
  Done =>
    /\ result.error = "None"
    /\ 0 <= result.confidence /\ result.confidence <= 100
    /\ NegCount >= 2 => result.confidence <= 95
    /\ (NegCount < 2 /\ PosCount >= 2) => result.confidence <= 90
    /\ (NegCount < 2 /\ PosCount < 2 /\ PosCount + NegCount >= 1) =>
         result.confidence <= (IF magnitude = "major" THEN 70 ELSE 50)
    /\ PosCount + NegCount = 0 => result.confidence \in {75, 85}

\* The penalties exceed the base of the rule: the confidence is clamped to 0.
C8_Witness ==
  /\ Done /\ PosCount + NegCount = 1 /\ magnitude = "major"
  /\ PenaltyHundredths > 70
  /\ result.confidence = 0

\* C9: for rules 2-5 matched_keywords is the list of the keywords of every
\* match detected in the content, positive taxonomy then negative, duplicates
\* retained, in detection order.
C9_EvidenceIsEveryMatch ==
  (Done /\ PosCount + NegCount >= 1) =>
    /\ Len(result.matched_keywords) = Len(RawMatches)
    /\ \A i \in 1..Len(RawMatches) :
         result.matched_keywords[i] = RawMatches[i].keyword

\* The text of an insignificant pattern, by which a content is extended.
InsignificantText == "font-size: 12px"

KeywordFacts(matches) ==
  [i \in 1..Len(matches) |->
     <<matches[i].keyword, matches[i].position, matches[i].is_negated,
       matches[i].is_false_positive>>]

\* C10: insignificant-pattern matches never change the classification: a
\* significant or uncertain result rests on an effective keyword, the
\* classification is the one the same positive and negative matches get with
\* no insignificant match and with any other, and a content extended by an
\* insignificant pattern that leaves the keyword matches as they are is
\* classified the same.
C10_InsignificantNeverDrives ==
  Done =>
    /\ result.classification \in {"significant", "uncertain"} =>
         PosCount + NegCount >= 1
    /\ \A insignificant \in {<<>>, insignificant_matches,
                             _find_insignificant_patterns(InsignificantText)} :
         ClassifyMatches(positive_matches, negative_matches, insignificant,
                         magnitude, hash_seed).classification
           = result.classification
    /\ LET extended == content \o InsignificantText
           positive == _find_keywords(extended, POSITIVE_KEYWORDS)
           negative == _find_keywords(extended, NEGATIVE_KEYWORDS)
       IN  (/\ KeywordFacts(positive) = KeywordFacts(positive_matches)
            /\ KeywordFacts(negative) = KeywordFacts(negative_matches)) =>
             ClassifyMatches(positive, negative,
                             _find_insignificant_patterns(extended),
                             magnitude, hash_seed).classification
               = result.classification

\* A keyword beside an insignificant pattern at magnitude minor: the result is
\* uncertain, as it is without the pattern.
C10_Witness ==
  /\ Done /\ magnitude = "minor"
  /\ insignificant_matches # <<>>
  /\ PosCount + NegCount = 1
  /\ result.classification = "uncertain"

(***************************************************************************)
(* A process calling analyze_significance several times.  Every call reads *)
(* the keyword tables the module holds and the process's string hashing    *)
(* (hash_seed); the log keeps what each call was given and returned.       *)
(***************************************************************************)
\* The number of calls one process makes, at most.
MaxCalls == 3

CallContents ==
  {"Raised Series B funding CEO resigned after lawsuit ",
   "never had layoffs "}

\* A call that pops the first keyword of the first negative category after
\* using the table.
CallAnalyzeConsuming(text, mag) ==
  /\ Len(log) < MaxCalls
  /\ positive_matches' = _find_keywords(text, tables.positive)
  /\ negative_matches' = _find_keywords(text, tables.negative)
  /\ insignificant_matches' = _find_insignificant_patterns(text)
  /\ result' = ClassifyMatches(positive_matches', negative_matches',
                               insignificant_matches', mag, hash_seed)
  /\ content' = text
  /\ magnitude' = mag
  /\ pc' = "done"
  /\ log' = Append(log, [content |-> text, magnitude |-> mag,
                         result |-> result'])
  /\ tables' = [tables EXCEPT !.negative[1].keywords = Tail(@)]
  /\ UNCHANGED <<hash_seed, magVars, cdVars, ldVars, newsVars, llmVars, retryVars, elVars>>

\* One call analyze_significance(text, mag) of the running process.
CallAnalyze(text, mag) ==
  /\ Len(log) < MaxCalls
  /\ positive_matches' = _find_keywords(text, tables.positive)
  /\ negative_matches' = _find_keywords(text, tables.negative)
  /\ insignificant_matches' = _find_insignificant_patterns(text)
  /\ result' = ClassifyMatches(positive_matches', negative_matches',
                               insignificant_matches', mag, hash_seed)
  /\ content' = text
  /\ magnitude' = mag
  /\ pc' = "done"
  /\ log' = Append(log, [content |-> text, magnitude |-> mag,
                         result |-> result'])
  /\ UNCHANGED <<tables, hash_seed, magVars, cdVars, ldVars, newsVars, llmVars, retryVars, elVars>>

InitCalls ==
  /\ content = ""
  /\ magnitude = "minor"
  /\ hash_seed \in {0, 1}
  /\ pc = "call"
  /\ positive_matches = <<>>
  /\ negative_matches = <<>>
  /\ insignificant_matches = <<>>
  /\ result = NoResult
  /\ IdleCalls
  /\ IdleMagnitude
  /\ IdleChangeDetection
  /\ IdleLeadership
  /\ IdleNews
  /\ IdleLlm
  /\ IdleRetry
  /\ IdleExtraction

NextCalls == \E text \in CallContents, mag \in ChangeMagnitude : CallAnalyze(text, mag)

SpecCalls == InitCalls /\ [][NextCalls]_vars

MaxDen == 20

\* The ratios num/den of [0, 1] with a denominator up to MaxDen.
Ratios == {r \in [num : 0..MaxDen, den : 1..MaxDen] : r.num <= r.den}

\* The thresholds read as strict lower bounds.
_calculate_magnitude_strict(sim) ==
  IF sim.num * 100 > 90 * sim.den THEN "minor"
  ELSE IF sim.num * 100 > 50 * sim.den THEN "moderate"
  ELSE "major"

\* similarity >= 0.90 / similarity >= 0.50 on the quotient num/den.  The
\* double nearest to num/den compares with the literals 0.90 and 0.50 as the
\* exact quotient does: a quotient other than 9/10 with den <= 100000 is
\* further from 9/10 than a rounding error, and 9/10 itself rounds to the
\* double the literal 0.90 denotes.
_calculate_magnitude(sim) ==
  IF sim.num * 100 >= 90 * sim.den THEN "minor"
  ELSE IF sim.num * 100 >= 50 * sim.den THEN "moderate"
  ELSE "major"

InitMagnitude ==
  /\ similarity \in Ratios
  /\ change_magnitude = "None"
  /\ IdleSignificance
  /\ IdleCalls
  /\ IdleChangeDetection
  /\ IdleLeadership
  /\ IdleNews
  /\ IdleLlm
  /\ IdleRetry
  /\ IdleExtraction

CalculateMagnitude ==
  /\ change_magnitude = "None"
  /\ change_magnitude' = _calculate_magnitude(similarity)
  /\ UNCHANGED <<similarity, sigVars, callVars, cdVars, ldVars, newsVars, llmVars, retryVars, elVars>>

NextMagnitude == CalculateMagnitude

SpecMagnitude == InitMagnitude /\ [][NextMagnitude]_vars

\* C12: the magnitude of a similarity ratio r of [0, 1] is minor iff
\* r >= 0.90, moderate iff 0.50 <= r < 0.90 and major iff r < 0.50; every
\* ratio gets exactly one of the three, 0.90 itself is minor and 0.50 itself
\* is moderate.
C12_MagnitudeThresholds ==
  change_magnitude # "None" =>
    /\ change_magnitude \in ChangeMagnitude
    /\ (change_magnitude = "minor") <=> (10 * similarity.num >= 9 * similarity.den)
    /\ (change_magnitude = "moderate") <=>
         (2 * similarity.num >= similarity.den /\ 10 * similarity.num < 9 * similarity.den)
    /\ (change_magnitude = "major") <=> (2 * similarity.num < similarity.den)

\* The ratio 0.90 itself, classified minor.
C12_Witness ==
  /\ 10 * similarity.num = 9 * similarity.den
  /\ change_magnitude = "minor"

(***************************************************************************)
(* difflib, as change_detection.py uses it: SequenceMatcher(None, a, b)    *)
(* on two strings (ratio) and, inside unified_diff, on two lists of lines. *)
(* Sequences are shorter than 200 elements, so the automatic junk          *)
(* heuristic of SequenceMatcher never applies.  Positions are 0-based.     *)
(***************************************************************************)
\* a[i:i+1]
At(s, i) == SubSeq(s, i + 1, i + 1)

\* The length of the longest common prefix of a[i:ahi] and b[j:bhi].
MatchLen(a, b, i, ahi, j, bhi) ==
  LET cap == Min(ahi - i, bhi - j)
  IN  CHOOSE k \in 0..cap :
        /\ Slice(a, i, i + k) = Slice(b, j, j + k)
        /\ (k = cap \/ At(a, i + k) # At(b, j + k))

\* SequenceMatcher.find_longest_match: of all longest matching blocks of
\* a[alo:ahi] and b[blo:bhi] the one that starts earliest in a and, of
\* those, earliest in b; <<alo, blo, 0>> when nothing matches.
find_longest_match(a, b, alo, ahi, blo, bhi) ==
  LET starts == {c \in (alo..(ahi - 1)) \X (blo..(bhi - 1)) :
                   At(a, c[1]) = At(b, c[2])}
      size(c) == MatchLen(a, b, c[1], ahi, c[2], bhi)
  IN  IF starts = {} THEN <<alo, blo, 0>>
      ELSE LET sizes == {size(c) : c \in starts}
               bestsize == CHOOSE k \in sizes : \A n \in sizes : n <= k
               longest == {c \in starts : size(c) = bestsize}
               besti == CHOOSE i \in {c[1] : c \in longest} :
                          \A c \in longest : i <= c[1]
               bestj == CHOOSE j \in {c[2] : c \in {d \in longest : d[1] = besti}} :
                          \A c \in longest : c[1] = besti => j <= c[2]
           IN  <<besti, bestj, bestsize>>

RECURSIVE get_matching_blocks(_, _, _, _, _, _)
\* The match m of the range, then the blocks to its left and to its right.
BlocksAround(a, b, alo, ahi, blo, bhi, i, j, k) ==
  IF k = 0 THEN {}
  ELSE {<<i, j, k>>}
       \cup (IF alo < i /\ blo < j
             THEN get_matching_blocks(a, b, alo, i, blo, j) ELSE {})
       \cup (IF i + k < ahi /\ j + k < bhi
             THEN get_matching_blocks(a, b, i + k, ahi, j + k, bhi) ELSE {})

\* A triple handed on as three arguments.
BlocksAroundMatch(a, b, alo, ahi, blo, bhi, m) ==
  BlocksAround(a, b, alo, ahi, blo, bhi, m[1], m[2], m[3])

\* SequenceMatcher.get_matching_blocks: the longest match of the range, then
\* the blocks to its left and to its right; as a set of <<i, j, size>>.
get_matching_blocks(a, b, alo, ahi, blo, bhi) ==
  BlocksAroundMatch(a, b, alo, ahi, blo, bhi,
                    find_longest_match(a, b, alo, ahi, blo, bhi))

RECURSIVE SumSizes(_)
SumSizes(blocks) ==
  IF blocks = {} THEN 0
  ELSE LET m == CHOOSE x \in blocks : TRUE
       IN  m[3] + SumSizes(blocks \ {m})

\* SequenceMatcher.ratio: 2.0 * matches / (len(a) + len(b)), 1.0 for two
\* empty sequences.
ratio(a, b) ==
  IF Len(a) + Len(b) = 0 THEN Ratio(1, 1)
  ELSE Ratio(2 * SumSizes(get_matching_blocks(a, b, 0, Len(a), 0, Len(b))),
             Len(a) + Len(b))

\* The positions of a (side 1) or of b (side 2) inside a matching block.
Matched(blocks, side) ==
  UNION {m[side]..(m[side] + m[3] - 1) : m \in blocks}

RECURSIVE splitlines(_)
\* str.splitlines(keepends=True), for strings whose only line boundary is
\* the newline character.
splitlines(s) ==
  IF s = "" THEN <<>>
  ELSE LET p == Find(s, "\n", 0)
       IN  IF p = -1 THEN <<s>>
           ELSE <<Slice(s, 0, p + 1)>> \o splitlines(Slice(s, p + 1, Len(s)))

RECURSIVE Tagged(_, _, _, _)
\* The lines of a sequence from position i on, each line outside the matching
\* blocks prefixed with tag, the others left out.
Tagged(lines, matched, tag, i) ==
  IF i >= Len(lines) THEN <<>>
  ELSE (IF i \in matched THEN <<>> ELSE <<tag \o lines[i + 1]>>)
       \o Tagged(lines, matched, tag, i + 1)

\* difflib.unified_diff(a, b, lineterm=""): nothing when the two lists are
\* equal; otherwise the two file header lines and, hunk by hunk, the lines
\* of a outside the matching blocks prefixed "-" and those of b prefixed
\* "+".  The "@@" hunk headers and the " "-prefixed context lines, which
\* start with neither "+" nor "-", are left out, and the removed lines of
\* all hunks are listed before the added ones; the order of the added lines
\* among themselves is that of b.
unified_diff(a, b) ==
  LET blocks == get_matching_blocks(a, b, 0, Len(a), 0, Len(b))
  IN  IF a = b THEN <<>>
      ELSE <<"--- ", "+++ ">>
           \o Tagged(a, Matched(blocks, 1), "-", 0)
           \o Tagged(b, Matched(blocks, 2), "+", 0)

\* str.startswith
StartsWith(s, prefix) == Slice(s, 0, Len(prefix)) = prefix

RECURSIVE Join(_, _)
\* sep.join(parts)
Join(sep, parts) ==
  IF parts = <<>> THEN ""
  ELSE IF Len(parts) = 1 THEN parts[1]
  ELSE parts[1] \o sep \o Join(sep, Tail(parts))

RECURSIVE AddedLines(_, _)
\* The loop of _extract_diff_lines over the diff, from line i on.
AddedLines(diff, i) ==
  IF i > Len(diff) THEN <<>>
  ELSE (IF StartsWith(diff[i], "+") /\ ~StartsWith(diff[i], "+++")
        THEN <<Strip(Slice(diff[i], 1, Len(diff[i])))>> ELSE <<>>)
       \o AddedLines(diff, i + 1)

_extract_diff_lines(old_content, new_content) ==
  LET old_lines == splitlines(old_content)
      new_lines == splitlines(new_content)
      diff == unified_diff(old_lines, new_lines)
  IN  Join("\n", AddedLines(diff, 1))

(***************************************************************************)
(* change_detection.py: detect_changes, one loop iteration per step.       *)
(***************************************************************************)
\* The number of companies of the database, at most.
MaxCompanies == 2

MAX_COMPARE_LENGTH == 50000

\* Snapshot.compute_checksum: the MD5 digest of the content, kept as a tag
\* on the content itself; two digests are equal iff the contents are.
compute_checksum(text) == "md5:" \o text

\* A snapshot as capture stores it: the checksum is computed from the
\* markdown, and is None when there is no markdown (None and "" alike).
Snapshot(markdown) ==
  [exists |-> TRUE,
   content_markdown |-> markdown,
   content_checksum |-> IF markdown # "" THEN compute_checksum(markdown) ELSE "None"]

\* The None that get_latest_two_snapshots returns for a missing snapshot.
NoSnapshot == [exists |-> FALSE, content_markdown |-> "", content_checksum |-> "None"]

SnapshotContents ==
  {"", "hiring\n", "hiring\n layoffs \n", "layoffs\nhiring\n++ bankruptcy\n"}

\* get_latest_two_snapshots: no snapshot, one (the new one) or two.
LatestTwo ==
  {[old |-> NoSnapshot, new |-> NoSnapshot]}
  \cup {[old |-> NoSnapshot, new |-> Snapshot(n)] : n \in SnapshotContents}
  \cup {[old |-> Snapshot(o), new |-> Snapshot(n)] : o, n \in SnapshotContents}

RECURSIVE Databases(_)
\* The databases of up to n companies.
Databases(n) ==
  IF n = 0 THEN {<<>>}
  ELSE LET fewer == Databases(n - 1)
       IN  fewer \cup {Append(d, p) : d \in fewer, p \in LatestTwo}

\* An empty side compared as an unchanged one.
SimilarityEmptyIsSame(has_changed, old_content, new_content) ==
  IF has_changed /\ old_content # "" /\ new_content # ""
  THEN ratio(old_content, new_content)
  ELSE Ratio(1, 1)

\* The similarity of the two contents.
Similarity(has_changed, old_content, new_content) ==
  IF has_changed /\ old_content # "" /\ new_content # ""
  THEN ratio(old_content, new_content)
  ELSE IF ~has_changed THEN Ratio(1, 1) ELSE Ratio(0, 1)

\* ChangeRecord(...) as detect_changes fills it.
ChangeRecord(company, old_snap, new_snap, has_changed, mag, diff_text, sig_result) ==
  [company_id |-> company,
   has_changed |-> has_changed,
   change_magnitude |-> mag,
   checksum_old |-> old_snap.content_checksum,
   checksum_new |-> new_snap.content_checksum,
   diff_summary |-> IF diff_text # "" THEN Slice(diff_text, 0, 5000) ELSE "None",
   matched_keywords |-> sig_result.matched_keywords,
   matched_categories |-> sig_result.matched_categories,
   significance_classification |-> sig_result.classification,
   significance_sentiment |-> sig_result.sentiment,
   significance_confidence |-> sig_result.confidence]

\* The local variables of the try block once the record is built.
Locals(company, old_content, new_content, has_changed, sim, diff_text, record) ==
  [company |-> company,
   old_content |-> old_content,
   new_content |-> new_content,
   has_changed |-> has_changed,
   similarity |-> sim,
   diff_text |-> diff_text,
   content_for_analysis |-> IF diff_text # "" THEN diff_text ELSE new_content,
   record |-> record]

\* The try block from the significance analysis on.
AnalyzeChange(company, old_snap, new_snap, old_content, new_content, has_changed, sim, mag, diff_text, seed) ==
  Locals(company, old_content, new_content, has_changed, sim, diff_text,
         ChangeRecord(company, old_snap, new_snap, has_changed, mag, diff_text,
                      analyze_significance(IF diff_text # "" THEN diff_text
                                           ELSE new_content, mag, seed)))

\* The try block from the magnitude on.
MeasureChange(company, old_snap, new_snap, old_content, new_content, has_changed, sim, seed) ==
  AnalyzeChange(company, old_snap, new_snap, old_content, new_content,
                has_changed, sim, _calculate_magnitude(sim),
                IF has_changed /\ old_content # "" /\ new_content # ""
                THEN _extract_diff_lines(old_content, new_content)
                ELSE "",
                seed)

\* The try block from the comparison of the checksums on.
CompareContents(company, old_snap, new_snap, old_content, new_content, has_changed, seed) ==
  MeasureChange(company, old_snap, new_snap, old_content, new_content,
                has_changed,
                Similarity(has_changed, old_content, new_content), seed)

\* The body of the try block for one company, up to the ChangeRecord.
CompareSnapshots(company, old_snap, new_snap, seed) ==
  CompareContents(company, old_snap, new_snap,
                  Slice(old_snap.content_markdown, 0, MAX_COMPARE_LENGTH),
                  Slice(new_snap.content_markdown, 0, MAX_COMPARE_LENGTH),
                  old_snap.content_checksum # new_snap.content_checksum, seed)

\* The end of the try block with an except clause that leaves the counters
\* and the errors alone.
StoreChangeRecordUncounted(locals, stored) ==
  IF stored
  THEN /\ change_records' = Append(change_records, locals.record)
       /\ cd_result' = [cd_result EXCEPT !.processed = @ + 1,
                                         !.successful = @ + 1]
       /\ cd_locals' = [outcome |-> "successful"] @@ locals
  ELSE /\ cd_result' = [cd_result EXCEPT !.processed = @ + 1]
       /\ cd_locals' = [outcome |-> "failed"] @@ locals
       /\ UNCHANGED change_records

\* The end of the try block: the record is stored, or storing it raises.
StoreChangeRecord(locals, stored) ==
  IF stored
  THEN /\ change_records' = Append(change_records, locals.record)
       /\ cd_result' = [cd_result EXCEPT !.processed = @ + 1,
                                         !.successful = @ + 1]
       /\ cd_locals' = [outcome |-> "successful"] @@ locals
  ELSE /\ cd_result' =
            [cd_result EXCEPT !.processed = @ + 1,
                              !.failed = @ + 1,
                              !.errors = Append(@, [company |-> locals.company])]
       /\ cd_locals' = [outcome |-> "failed"] @@ locals
       /\ UNCHANGED change_records

InitChangeDetection ==
  /\ snapshots \in Databases(MaxCompanies)
  /\ cd_next = 1
  /\ cd_result = ExtractionResult
  /\ change_records = <<>>
  /\ cd_locals = NoLocals
  /\ content = ""
  /\ magnitude = "minor"
  /\ hash_seed \in {0, 1}
  /\ pc = "call"
  /\ positive_matches = <<>>
  /\ negative_matches = <<>>
  /\ insignificant_matches = <<>>
  /\ result = NoResult
  /\ IdleCalls
  /\ IdleMagnitude
  /\ IdleLeadership
  /\ IdleNews
  /\ IdleLlm
  /\ IdleRetry
  /\ IdleExtraction

\* One iteration of the loop over the companies; storing the record may
\* raise.
DetectChangesCompany ==
  /\ cd_next <= Len(snapshots)
  /\ LET old_snap == snapshots[cd_next].old
         new_snap == snapshots[cd_next].new
     IN  IF ~old_snap.exists \/ ~new_snap.exists
         THEN /\ cd_result' = [cd_result EXCEPT !.skipped = @ + 1]
              /\ cd_locals' = [company |-> cd_next, outcome |-> "skipped"]
              /\ UNCHANGED change_records
         ELSE IF old_snap.content_markdown = ""
         THEN /\ cd_result' = [cd_result EXCEPT !.processed = @ + 1,
                                                !.skipped = @ + 1]
              /\ cd_locals' = [company |-> cd_next, outcome |-> "missing_old_content"]
              /\ UNCHANGED change_records
         ELSE \E stored \in BOOLEAN :
                StoreChangeRecord(CompareSnapshots(cd_next, old_snap, new_snap,
                                                   hash_seed), stored)
  /\ cd_next' = cd_next + 1
  /\ UNCHANGED <<snapshots, sigVars, callVars, magVars, ldVars, newsVars, llmVars, retryVars, elVars>>

NextChangeDetection == DetectChangesCompany

SpecChangeDetection == InitChangeDetection /\ [][NextChangeDetection]_vars

(***************************************************************************)
(* What the properties of detect_changes speak of: the company of the      *)
(* latest iteration and its two snapshots.                                 *)
(***************************************************************************)
Iterated == cd_locals.company > 0

OldSnap == snapshots[cd_locals.company].old

NewSnap == snapshots[cd_locals.company].new

Compared == Iterated /\ cd_locals.outcome \in {"successful", "failed"}

RecordsOf(company) ==
  {i \in 1..Len(change_records) : change_records[i].company_id = company}

\* C13 as stated: when the checksums of the two snapshots differ and the old
\* or the new content is empty, the similarity is 0.0 and the change is
\* recorded with magnitude major (unless storing the record itself failed).
C13_EmptySideIsMajor ==
  (/\ Iterated
   /\ OldSnap.exists /\ NewSnap.exists
   /\ OldSnap.content_checksum # NewSnap.content_checksum
   /\ (OldSnap.content_markdown = "" \/ NewSnap.content_markdown = "")
   /\ cd_locals.outcome # "failed")
  => /\ cd_locals.outcome = "successful"
     /\ cd_locals.similarity = Ratio(0, 1)
     /\ change_records[Len(change_records)].company_id = cd_locals.company
     /\ change_records[Len(change_records)].change_magnitude = "major"

\* C13, amended: when the new content is empty and the old one is not, the
\* checksums differ, the similarity is 0.0 and the record built for the
\* company has magnitude major (and is the one stored when storing
\* succeeds); when the old content is empty the company is skipped before
\* anything is compared and no record of it is stored.
C13_EmptyNewIsMajorEmptyOldIsSkipped ==
  (Iterated /\ OldSnap.exists /\ NewSnap.exists) =>
    /\ OldSnap.content_markdown = "" =>
         /\ cd_locals.outcome = "missing_old_content"
         /\ RecordsOf(cd_locals.company) = {}
    /\ (OldSnap.content_markdown # "" /\ NewSnap.content_markdown = "") =>
         /\ Compared
         /\ cd_locals.has_changed
         /\ cd_locals.similarity = Ratio(0, 1)
         /\ cd_locals.record.change_magnitude = "major"
         /\ cd_locals.outcome = "successful" =>
              change_records[Len(change_records)] = cd_locals.record

\* A company whose new snapshot is empty and whose old one is not, stored as a
\* major change.
C13_Witness ==
  /\ Iterated
  /\ OldSnap.exists /\ OldSnap.content_markdown # ""
  /\ NewSnap.exists /\ NewSnap.content_markdown = ""
  /\ cd_locals.outcome = "successful"
  /\ change_records[Len(change_records)].company_id = cd_locals.company
  /\ change_records[Len(change_records)].change_magnitude = "major"

\* The lines of the new content that unified_diff aligns with no line of the
\* old content, in the order of the new content.
UnalignedNewLines(old_content, new_content) ==
  LET old_lines == splitlines(old_content)
      new_lines == splitlines(new_content)
      blocks == get_matching_blocks(old_lines, new_lines, 0, Len(old_lines),
                                    0, Len(new_lines))
  IN  Tagged(new_lines, Matched(blocks, 2), "", 0)

Trimmed(lines) == [i \in 1..Len(lines) |-> Strip(lines[i])]

\* C14: the extracted diff is exactly the lines of the new content that are
\* aligned with no line of the old content, each trimmed, in the order of
\* the new content, joined by newlines.
C14_DiffIsAddedLines ==
  (Compared /\ cd_locals.has_changed /\ cd_locals.new_content # "") =>
    cd_locals.diff_text =
      Join("\n", Trimmed(UnalignedNewLines(cd_locals.old_content,
                                           cd_locals.new_content)))

(***************************************************************************)
(* leadership.py: titles.  The regular expressions of _LEADERSHIP_PATTERNS *)
(* are matched as re.search matches them: at the leftmost position where   *)
(* the pattern matches, ignoring case: the patterns are matched against    *)
(* the lower-cased title, which has the same length and the same word      *)
(* characters.  MatchN(s, p) is the end of the match of pattern N that     *)
(* starts at position p of the lower-cased title s, or -1.                 *)
(***************************************************************************)
WordCharacters ==
  LET all == UpperLetters \o LowerLetters \o "0123456789_"
  IN  {Slice(all, i, i + 1) : i \in 0..(Len(all) - 1)}

\* c.upper() for one character.
UpperChar(c) ==
  LET i == Find(LowerLetters, c, 0)
  IN  IF i = -1 THEN c ELSE Slice(UpperLetters, i, i + 1)

RECURSIVE Upper(_)
\* s.upper()
Upper(s) ==
  IF Len(s) = 0 THEN s
  ELSE IF Len(s) = 1 THEN UpperChar(s)
  ELSE Upper(Slice(s, 0, Len(s) \div 2)) \o Upper(Slice(s, Len(s) \div 2, Len(s)))

\* \w at position p
IsWordAt(s, p) ==
  p >= 0 /\ p < Len(s) /\ Slice(s, p, p + 1) \in WordCharacters

\* \s at position p
IsSpaceAt(s, p) == p >= 0 /\ p < Len(s) /\ Slice(s, p, p + 1) \in Whitespace

\* \b at position p
WordBoundary(s, p) == IsWordAt(s, p - 1) # IsWordAt(s, p)

\* The end of the lower-case literal lit at p, or -1; -1 is handed on.
Literal(s, p, lit) ==
  IF p >= 0 /\ Slice(s, p, p + Len(lit)) = lit THEN p + Len(lit) ELSE -1

\* \w+ at p: the end of the longest run of word characters, or -1.
WordRun(s, p) ==
  IF ~IsWordAt(s, p) THEN -1
  ELSE CHOOSE e \in (p + 1)..Len(s) :
         /\ \A q \in p..(e - 1) : IsWordAt(s, q)
         /\ ~IsWordAt(s, e)

\* \s+ at p: the end of the longest run of whitespace, or -1.
SpaceRun(s, p) ==
  IF ~IsSpaceAt(s, p) THEN -1
  ELSE CHOOSE e \in (p + 1)..Len(s) :
         /\ \A q \in p..(e - 1) : IsSpaceAt(s, q)
         /\ ~IsSpaceAt(s, e)

\* A trailing \b: the match ends at e if e is a word boundary.
Bounded(s, e) == IF e >= 0 /\ WordBoundary(s, e) THEN e ELSE -1

\* \b lit \b at p
Word(s, p, lit) ==
  IF WordBoundary(s, p) THEN Bounded(s, Literal(s, p, lit)) ELSE -1

\* \b first \s+ second \b at p
TwoWords(s, p, first, second) ==
  IF WordBoundary(s, p)
  THEN Bounded(s, Literal(s, SpaceRun(s, Literal(s, p, first)), second))
  ELSE -1

\* The first of two ends that is a match.
OrElse(e1, e2) == IF e1 >= 0 THEN e1 ELSE e2

\* \b(CEO|CTO|COO|CFO|CMO|CRO|CSO)\b
Match1(s, p) ==
  IF Slice(s, p, p + 3) \in {"ceo", "cto", "coo", "cfo", "cmo", "cro", "cso"}
  THEN Word(s, p, Slice(s, p, p + 3))
  ELSE -1

\* \bChief\s+\w+\s+Officer\b
Match2(s, p) ==
  IF WordBoundary(s, p)
  THEN Bounded(s, Literal(s, SpaceRun(s, WordRun(s, SpaceRun(s,
                    Literal(s, p, "chief")))), "officer"))
  ELSE -1

\* \b(?:Co-?[Ff]ounder|Cofounder)\b
Match3(s, p) == OrElse(Word(s, p, "co-founder"), Word(s, p, "cofounder"))

\* \bFounder\b
Match4(s, p) == Word(s, p, "founder")

\* \bPresident\b
Match5(s, p) == Word(s, p, "president")

\* \bManaging\s+Director\b
Match6(s, p) == TwoWords(s, p, "managing", "director")

\* \bGeneral\s+Manager\b
Match7(s, p) == TwoWords(s, p, "general", "manager")

\* \bVP\s+(?:of\s+)?\w+\b, from the end q of VP\s+ on: with the optional
\* group if the rest then matches, without it otherwise.  The longest run
\* of word characters always ends at a word boundary.
AfterVP(s, q) ==
  OrElse(WordRun(s, SpaceRun(s, Literal(s, q, "of"))), WordRun(s, q))

Match8(s, p) ==
  IF WordBoundary(s, p) /\ SpaceRun(s, Literal(s, p, "vp")) >= 0
  THEN AfterVP(s, SpaceRun(s, Literal(s, p, "vp")))
  ELSE -1

\* \bVice\s+President(?:\s+of\s+\w+)?\b, from the end e of Vice\s+President
\* on.
AfterVicePresident(s, e) ==
  OrElse(WordRun(s, SpaceRun(s, Literal(s, SpaceRun(s, e), "of"))),
         Bounded(s, e))

Match9(s, p) ==
  IF WordBoundary(s, p)
     /\ Literal(s, SpaceRun(s, Literal(s, p, "vice")), "president") >= 0
  THEN AfterVicePresident(s, Literal(s, SpaceRun(s, Literal(s, p, "vice")),
                                     "president"))
  ELSE -1

\* The end of the match of pattern n at p.
MatchPattern(n, s, p) ==
  CASE n = 1 -> Match1(s, p)
    [] n = 2 -> Match2(s, p)
    [] n = 3 -> Match3(s, p)
    [] n = 4 -> Match4(s, p)
    [] n = 5 -> Match5(s, p)
    [] n = 6 -> Match6(s, p)
    [] n = 7 -> Match7(s, p)
    [] n = 8 -> Match8(s, p)
    [] n = 9 -> Match9(s, p)

\* pattern.search(title).group(0) for pattern n, or "None"; lowered is
\* title.lower().
Search(n, title, lowered) ==
  LET hits == {p \in 0..Len(lowered) : MatchPattern(n, lowered, p) >= 0}
  IN  IF hits = {} THEN "None"
      ELSE LET first == CHOOSE p \in hits : \A q \in hits : p <= q
           IN  Slice(title, first, MatchPattern(n, lowered, first))

\* _TITLE_CANONICALIZATION, as <<key, canonical form>> pairs.
_TITLE_CANONICALIZATION ==
  <<<<"chief executive officer", "CEO">>,
    <<"chief technology officer", "CTO">>,
    <<"chief operating officer", "COO">>,
    <<"chief financial officer", "CFO">>,
    <<"chief marketing officer", "CMO">>,
    <<"chief people officer", "Chief People Officer">>,
    <<"chief product officer", "Chief Product Officer">>,
    <<"chief revenue officer", "CRO">>,
    <<"chief strategy officer", "CSO">>,
    <<"chief data officer", "Chief Data Officer">>,
    <<"chief information officer", "Chief Information Officer">>,
    <<"cofounder", "Co-Founder">>,
    <<"co founder", "Co-Founder">>,
    <<"co-founder", "Co-Founder">>>>

\* key in _TITLE_CANONICALIZATION
IsCanonicalized(key) ==
  \E i \in 1..Len(_TITLE_CANONICALIZATION) : _TITLE_CANONICALIZATION[i][1] = key

\* _TITLE_CANONICALIZATION[key]
Canonical(key) ==
  _TITLE_CANONICALIZATION[CHOOSE i \in 1..Len(_TITLE_CANONICALIZATION) :
                            _TITLE_CANONICALIZATION[i][1] = key][2]

\* The number of patterns in _LEADERSHIP_PATTERNS.
PatternCount == 9

RECURSIVE FirstMatch(_, _, _)
\* found if pattern n matched, the match of the next patterns otherwise.
MatchOrNext(found, n, title, lowered) ==
  IF found # "None" THEN found ELSE FirstMatch(n + 1, title, lowered)

\* The loop of extract_leadership_title from pattern n on.
FirstMatch(n, title, lowered) ==
  IF n > PatternCount THEN "None"
  ELSE MatchOrNext(Search(n, title, lowered), n, title, lowered)

\* extract_leadership_title: the match of the first pattern of the list that
\* matches, or "None".
extract_leadership_title(title) == FirstMatch(1, title, Lower(title))

\* normalize_title once the whole title is known not to be a key of the
\* table.
NormalizeExtracted(title, extracted) ==
  IF extracted # "None"
  THEN IF IsCanonicalized(Lower(extracted))
       THEN Canonical(Lower(extracted))
       ELSE extracted
  ELSE title

normalize_title(title) ==
  IF IsCanonicalized(Strip(Lower(title)))
  THEN Canonical(Strip(Lower(title)))
  ELSE NormalizeExtracted(title, extract_leadership_title(title))

\* A departure type that reads the title without normalizing it.
_departure_type_raw(title) ==
  IF Upper(title) = "CEO" THEN "ceo_departure"
  ELSE IF Upper(title) \in {"FOUNDER", "CO-FOUNDER"} THEN "founder_departure"
  ELSE IF Upper(title) = "CTO" THEN "cto_departure"
  ELSE IF Upper(title) = "COO" THEN "coo_departure"
  ELSE "executive_departure"

\* The departure type of an upper-cased normalized title.
DepartureTypeOf(norm) ==
  IF norm = "CEO" THEN "ceo_departure"
  ELSE IF norm \in {"FOUNDER", "CO-FOUNDER"} THEN "founder_departure"
  ELSE IF norm = "CTO" THEN "cto_departure"
  ELSE IF norm = "COO" THEN "coo_departure"
  ELSE "executive_departure"

_departure_type(title) == DepartureTypeOf(Upper(normalize_title(title)))

(***************************************************************************)
(* leadership.py: detect_leadership_changes.  A missing profile URL (None, *)
(* an absent key or "") is the empty string; confidences are in            *)
(* hundredths.                                                             *)
(***************************************************************************)
\* The length of the previous and of the current roster, at most.
MaxPrevious == 2

MaxCurrent == 2

\* LeadershipChange(...)
LeadershipChange(change_type, person_name, title, severity, confidence, classification, sentiment, significance_confidence) ==
  [change_type |-> change_type,
   person_name |-> person_name,
   title |-> title,
   severity |-> severity,
   confidence |-> confidence,
   significance_classification |-> classification,
   significance_sentiment |-> sentiment,
   significance_confidence |-> significance_confidence]

RECURSIVE DictItems(_, _, _)
\* {keys[i]: values[i] for i in ... if keys[i]}, from position i on, as the
\* items of the dict in its order: a key stands where it was first inserted
\* and holds the value inserted last.
DictItems(keys, values, i) ==
  IF i > Len(keys) THEN <<>>
  ELSE IF keys[i] = "" \/ \E j \in 1..(i - 1) : keys[j] = keys[i]
  THEN DictItems(keys, values, i + 1)
  ELSE <<[key |-> keys[i],
          value |-> values[CHOOSE j \in i..Len(keys) :
                             /\ keys[j] = keys[i]
                             /\ \A k \in (j + 1)..Len(keys) : keys[k] # keys[i]]]>>
       \o DictItems(keys, values, i + 1)

\* The previous roster keyed by nothing: every record with a URL is an item.
prev_urls_undeduplicated(roster) ==
  SelectSeq([i \in 1..Len(roster) |->
               [key |-> roster[i].linkedin_profile_url, value |-> roster[i]]],
            LAMBDA item : item.key # "")

\* prev_urls = {l.linkedin_profile_url: l for l in previous if l.linkedin_profile_url}
prev_urls(roster) ==
  DictItems([i \in 1..Len(roster) |-> roster[i].linkedin_profile_url], roster, 1)

\* The current roster keyed by the display name.
curr_urls_by_name(roster) ==
  DictItems([i \in 1..Len(roster) |-> roster[i].name], roster, 1)

\* The current roster keyed by the URL without the filter on the URL: a
\* record without a URL is an item as well.
curr_urls_unfiltered(roster) ==
  DictItems([i \in 1..Len(roster) |->
               IF roster[i].profile_url = "" THEN "<no url>"
               ELSE roster[i].profile_url], roster, 1)

\* curr_urls = {r.get("profile_url", ""): r for r in current if r.get("profile_url")}
curr_urls(roster) ==
  DictItems([i \in 1..Len(roster) |-> roster[i].profile_url], roster, 1)

\* url in dict
HasKey(items, url) == \E i \in 1..Len(items) : items[i].key = url

\* The critical change types.
CriticalTypes ==
  {"ceo_departure", "founder_departure", "cto_departure", "coo_departure"}

\* The departure record of a leader whose change type is known.
DepartureOfType(leader, change_type) ==
  IF change_type \in CriticalTypes
  THEN LeadershipChange(change_type, leader.person_name, leader.title,
                        "critical", 95, "significant", "negative", 95)
  ELSE LeadershipChange(change_type, leader.person_name, leader.title,
                        "notable", 80, "None", "None", "None")

\* The record appended for a previous leader absent from the current roster.
Departure(leader) == DepartureOfType(leader, _departure_type(leader.title))

\* An arrival type that ignores the case of the normalized title.
ArrivalTypeIgnoringCase(title_norm) ==
  IF Upper(title_norm) = "CEO" THEN "new_ceo" ELSE "new_leadership"

\* The change type of an arrival with the normalized title title_norm.
ArrivalType(title_norm) ==
  IF title_norm = "CEO" THEN "new_ceo" ELSE "new_leadership"

\* The record appended for a current person absent from the previous roster.
Arrival(person) ==
  LeadershipChange(ArrivalType(normalize_title(person.title)), person.name,
                   person.title, "notable", 80, "None", "None", "None")

RECURSIVE Departures(_, _, _)
\* The first loop: the departures, in the order of prev_urls, from item i on.
Departures(prev, curr, i) ==
  IF i > Len(prev) THEN <<>>
  ELSE (IF ~HasKey(curr, prev[i].key) THEN <<Departure(prev[i].value)>> ELSE <<>>)
       \o Departures(prev, curr, i + 1)

RECURSIVE Arrivals(_, _, _)
\* The second loop: the arrivals, in the order of curr_urls, from item i on.
Arrivals(prev, curr, i) ==
  IF i > Len(curr) THEN <<>>
  ELSE (IF ~HasKey(prev, curr[i].key) THEN <<Arrival(curr[i].value)>> ELSE <<>>)
       \o Arrivals(prev, curr, i + 1)

\* The no_change record.
NoChange == LeadershipChange("no_change", "", "", "insignificant", 75, "None", "None", "None")

\* A no_change record appended to every list.
OrNoChangeAlways(found) == Append(found, NoChange)

\* The end of detect_leadership_changes: a no_change record if nothing was
\* found.
OrNoChange(found) == IF found = <<>> THEN <<NoChange>> ELSE found

\* The two loops over the two dicts.
DiffRosters(prev, curr) == Departures(prev, curr, 1) \o Arrivals(prev, curr, 1)

detect_leadership_changes(previous_roster, current_roster) ==
  OrNoChange(DiffRosters(prev_urls(previous_roster), curr_urls(current_roster)))

\* CompanyLeadership(person_name, title, linkedin_profile_url)
CompanyLeadership(person_name, title, url) ==
  [person_name |-> person_name, title |-> title, linkedin_profile_url |-> url]

\* A record of the current roster: {"name", "title", "profile_url"}.
Person(name, title, url) == [name |-> name, title |-> title, profile_url |-> url]

\* Who the rosters hold: two people under one URL, one of them also under a
\* second URL and without any.
Identities ==
  {<<"Jane Smith", "https://linkedin.com/in/a">>,
   <<"Bob Wilson", "https://linkedin.com/in/a">>,
   <<"Jane Smith", "https://linkedin.com/in/b">>,
   <<"Jane Smith", "">>}

FewTitles == {"CEO", "VP of Engineering"}

ManyTitles ==
  {"CEO", "ceo", "Chief Executive Officer", "Founder & CEO", "Founder",
   "co founder", "Cofounder and CTO", "CTO", "Chief Operating Officer",
   "coo", "CFO", "Chief People Officer", "President", "Head of Product"}

RECURSIVE Rosters(_, _)
\* The lists of up to n elements of a set.
Rosters(people, n) ==
  IF n = 0 THEN {<<>>}
  ELSE LET shorter == Rosters(people, n - 1)
       IN  shorter \cup {Append(r, p) : r \in shorter, p \in people}

\* Rosters of few titles and every identity, and rosters of one person with
\* every title.
PreviousRosters ==
  Rosters({CompanyLeadership(id[1], t, id[2]) : id \in Identities, t \in FewTitles},
          MaxPrevious)
  \cup {<<CompanyLeadership("Jane Smith", t, "https://linkedin.com/in/a")>> :
          t \in ManyTitles}

CurrentRosters ==
  Rosters({Person(id[1], t, id[2]) : id \in Identities, t \in FewTitles},
          MaxCurrent)
  \cup {<<Person("Bob Wilson", t, "https://linkedin.com/in/b")>> :
          t \in ManyTitles \cup {""}}

InitLeadership ==
  /\ previous \in PreviousRosters
  /\ current \in CurrentRosters
  /\ changes = NotReturned
  /\ IdleSignificance
  /\ IdleCalls
  /\ IdleMagnitude
  /\ IdleChangeDetection
  /\ IdleNews
  /\ IdleLlm
  /\ IdleRetry
  /\ IdleExtraction

DetectLeadershipChanges ==
  /\ changes = NotReturned
  /\ changes' = detect_leadership_changes(previous, current)
  /\ UNCHANGED <<previous, current, sigVars, callVars, magVars, cdVars,
                 newsVars, llmVars, retryVars, elVars>>

NextLeadership == DetectLeadershipChanges

SpecLeadership == InitLeadership /\ [][NextLeadership]_vars

(***************************************************************************)
(* What the properties of detect_leadership_changes speak of.              *)
(***************************************************************************)
Returned == changes # NotReturned

PreviousIds == {previous[i].linkedin_profile_url : i \in 1..Len(previous)} \ {""}

CurrentIds == {current[i].profile_url : i \in 1..Len(current)} \ {""}

DepartedIds == PreviousIds \ CurrentIds

ArrivedIds == CurrentIds \ PreviousIds

DepartureTypes ==
  {"ceo_departure", "founder_departure", "cto_departure", "coo_departure",
   "executive_departure"}

ArrivalTypes == {"new_ceo", "new_leadership"}

DepartureRecords ==
  {i \in 1..Len(changes) : changes[i].change_type \in DepartureTypes}

ArrivalRecords ==
  {i \in 1..Len(changes) : changes[i].change_type \in ArrivalTypes}

\* C15: the returned list is never empty; it is a single no_change record
\* (severity insignificant, confidence 0.75) if and only if no previous
\* identifier is absent from the current roster and no current identifier is
\* absent from the previous one, and holds only departure and arrival
\* records otherwise.
C15_NoChangeIffNothingFound ==
  Returned =>
    /\ Len(changes) >= 1
    /\ IF DepartedIds = {} /\ ArrivedIds = {}
       THEN /\ Len(changes) = 1
            /\ changes[1].change_type = "no_change"
            /\ changes[1].severity = "insignificant"
            /\ changes[1].confidence = 75
       ELSE \A i \in 1..Len(changes) :
              changes[i].change_type \in DepartureTypes \cup ArrivalTypes

\* Two rosters that are not empty and hold the same identifiers.
C15_Witness ==
  /\ Returned
  /\ PreviousIds # {}
  /\ PreviousIds = CurrentIds
  /\ changes = <<NoChange>>

\* C16: records are matched by profile URL only.  Every departure is that of
\* a previous record whose URL is absent from the current roster and every
\* arrival that of a current record whose URL is absent from the previous
\* one, so two rosters with the same URLs give no departure and no arrival
\* whatever the names and titles; a previous and a current record with the
\* same name and different URLs, neither on the other side, give a departure
\* and an arrival.
C16_MatchingByUrlOnly ==
  Returned =>
    /\ \A i \in DepartureRecords :
         \E j \in 1..Len(previous) :
           /\ previous[j].linkedin_profile_url \in DepartedIds
           /\ previous[j].person_name = changes[i].person_name
           /\ previous[j].title = changes[i].title
    /\ \A i \in ArrivalRecords :
         \E j \in 1..Len(current) :
           /\ current[j].profile_url \in ArrivedIds
           /\ current[j].name = changes[i].person_name
           /\ current[j].title = changes[i].title
    /\ PreviousIds = CurrentIds => DepartureRecords \cup ArrivalRecords = {}
    /\ \A p \in 1..Len(previous), c \in 1..Len(current) :
         (/\ previous[p].person_name = current[c].name
          /\ previous[p].linkedin_profile_url \in DepartedIds
          /\ current[c].profile_url \in ArrivedIds)
         => /\ \E i \in DepartureRecords, j \in 1..Len(previous) :
                 /\ previous[j].linkedin_profile_url = previous[p].linkedin_profile_url
                 /\ changes[i].person_name = previous[j].person_name
            /\ \E i \in ArrivalRecords, j \in 1..Len(current) :
                 /\ current[j].profile_url = current[c].profile_url
                 /\ changes[i].person_name = current[j].name

\* One URL under two different names and titles on the two sides: no change.
C16_Witness ==
  /\ Returned
  /\ Len(previous) = 1 /\ Len(current) = 1
  /\ previous[1].linkedin_profile_url = current[1].profile_url
  /\ previous[1].linkedin_profile_url # ""
  /\ previous[1].person_name # current[1].name
  /\ previous[1].title # current[1].title
  /\ changes = <<NoChange>>

\* C17: the subtype of every departure follows from the normalized title of
\* the person that left, read without regard to case: CEO gives
\* ceo_departure, Founder and Co-Founder founder_departure, CTO
\* cto_departure, COO coo_departure and anything else executive_departure;
\* the first four are critical with confidence 0.95, executive_departure is
\* notable with confidence 0.80.
C17_DepartureSubtype ==
  Returned =>
    \A i \in DepartureRecords :
      LET norm == Upper(normalize_title(changes[i].title))
          type == changes[i].change_type
      IN  /\ (type = "ceo_departure") <=> (norm = "CEO")
          /\ (type = "founder_departure") <=> (norm \in {"FOUNDER", "CO-FOUNDER"})
          /\ (type = "cto_departure") <=> (norm = "CTO")
          /\ (type = "coo_departure") <=> (norm = "COO")
          /\ (type = "executive_departure") <=>
               (norm \notin {"CEO", "FOUNDER", "CO-FOUNDER", "CTO", "COO"})
          /\ IF type = "executive_departure"
             THEN changes[i].severity = "notable" /\ changes[i].confidence = 80
             ELSE changes[i].severity = "critical" /\ changes[i].confidence = 95

\* A Chief Operating Officer leaves: a critical coo_departure.
C17_Witness ==
  /\ Returned
  /\ \E i \in DepartureRecords :
       /\ changes[i].title = "Chief Operating Officer"
       /\ changes[i].change_type = "coo_departure"
       /\ changes[i].severity = "critical"
       /\ changes[i].confidence = 95

\* C18: every arrival has type new_ceo if the normalized title of the person
\* is exactly CEO and new_leadership otherwise, severity notable and
\* confidence 0.80.
C18_ArrivalType ==
  Returned =>
    \A i \in ArrivalRecords :
      /\ (changes[i].change_type = "new_ceo")
           <=> (normalize_title(changes[i].title) = "CEO")
      /\ changes[i].severity = "notable"
      /\ changes[i].confidence = 80

\* A person titled "ceo" arrives: the normalized title is not exactly CEO,
\* the arrival is a new_leadership.
C18_Witness ==
  /\ Returned
  /\ \E i \in ArrivalRecords :
       /\ changes[i].title = "ceo"
       /\ changes[i].change_type = "new_leadership"
       /\ changes[i].severity = "notable"
       /\ changes[i].confidence = 80

\* C19: when a previous identifier is absent from the current roster or a
\* current one from the previous roster, the list holds one departure for
\* each distinct previous identifier absent from the current roster, one
\* arrival for each distinct current identifier absent from the previous
\* roster, and nothing else.
C19_OnePerIdentifier ==
  (Returned /\ (DepartedIds # {} \/ ArrivedIds # {})) =>
    /\ Cardinality(DepartureRecords) = Cardinality(DepartedIds)
    /\ Cardinality(ArrivalRecords) = Cardinality(ArrivedIds)
    /\ Len(changes) = Cardinality(DepartedIds) + Cardinality(ArrivedIds)

\* A CEO leaves under one identifier while a CEO arrives under another: two
\* changes, a ceo_departure and a new_ceo.
C19_Witness ==
  /\ Returned
  /\ Cardinality(DepartedIds) = 1 /\ Cardinality(ArrivedIds) = 1
  /\ Len(changes) = 2
  /\ changes[1].change_type = "ceo_departure"
  /\ changes[2].change_type = "new_ceo"

(***************************************************************************)
(* news_monitoring.py: _verify_article and the loop of                     *)
(* search_news_for_company over the search results.  Confidences are in    *)
(* hundredths; a missing key of an article and a missing homepage URL are  *)
(* the empty string.                                                       *)
(***************************************************************************)
\* The number of search results, at most.
MaxArticles == 2

\* Weights under which the domain match counts less than the claimed 0.30.
VERIFICATION_WEIGHTS_EVEN ==
  [logo |-> 25, domain |-> 25, context |-> 25, llm |-> 25]

VERIFICATION_WEIGHTS ==
  [logo |-> 30, domain |-> 30, context |-> 15, llm |-> 25]

VERIFICATION_THRESHOLD == 40

\* The least position of s from start on that holds one of "/", "?", "#",
\* or the length of s.
EndOfNetloc(s, start) ==
  LET ends == {p \in start..(Len(s) - 1) : Slice(s, p, p + 1) \in {"/", "?", "#"}}
  IN  IF ends = {} THEN Len(s)
      ELSE CHOOSE p \in ends : \A q \in ends : p <= q

\* urlparse(url).netloc for a URL whose scheme, if any, is made of letters:
\* what follows "//" at the start or after "scheme:", up to the path, the
\* query or the fragment; "" without "//".
Netloc(url) ==
  IF StartsWith(url, "//") THEN Slice(url, 2, EndOfNetloc(url, 2))
  ELSE IF Find(url, "://", 0) > 0 /\ Find(url, "://", 0) = Find(url, ":", 0)
  THEN Slice(url, Find(url, "://", 0) + 3, EndOfNetloc(url, Find(url, "://", 0) + 3))
  ELSE ""

\* s.removeprefix(prefix)
RemovePrefix(s, prefix) ==
  IF StartsWith(s, prefix) THEN Slice(s, Len(prefix), Len(s)) ELSE s

\* re.compile(r"\b" + re.escape(word) + r"\b").search(text) is not None
SearchBounded(text, word) ==
  \E p \in 0..(Len(text) - Len(word)) :
    /\ Slice(text, p, p + Len(word)) = word
    /\ WordBoundary(text, p)
    /\ WordBoundary(text, p + Len(word))

\* Signal 1 once the company domain is known.
DomainInText(company_domain, text_to_check) ==
  company_domain # "" /\ SearchBounded(text_to_check, company_domain)

\* Signal 1: the domain of the homepage stands in the snippet or in the URL
\* of the article.
DomainMatch(article, homepage_url) ==
  /\ homepage_url # ""
  /\ DomainInText(RemovePrefix(Netloc(homepage_url), "www."),
                  article.snippet \o " " \o article.url)

business_context_words ==
  {"announced", "raised", "launched", "acquired", "partnered", "reported",
   "expanded", "hired", "funding", "revenue", "growth", "product", "series",
   "round"}

\* Signal 2 on the lower-cased snippet.
NameInContext(name_lower, snippet_lower) ==
  /\ Contains(snippet_lower, name_lower)
  /\ \E word \in business_context_words : Contains(snippet_lower, word)

\* Signal 2: the company name stands in the snippet, next to a business word.
NameContext(article, company_name) ==
  NameInContext(Lower(company_name), Lower(article.snippet))

\* The confidence and the evidence of the signals that fired; the logo
\* signal adds nothing.
Verification(domain, context, llm) ==
  [confidence |-> (IF domain THEN VERIFICATION_WEIGHTS.domain ELSE 0)
                  + (IF context THEN VERIFICATION_WEIGHTS.context ELSE 0)
                  + (IF llm THEN VERIFICATION_WEIGHTS.llm ELSE 0),
   evidence |-> (IF domain THEN <<"domain_match">> ELSE <<>>)
                \o (IF context THEN <<"name_context">> ELSE <<>>)
                \o (IF llm THEN <<"llm_verification">> ELSE <<>>)]

\* What the LLM capability does when _llm_verify_article asks it about an
\* article: the package is missing, the client raises or times out, the
\* response has no content block, or the response carries a text.
ArticleResponses ==
  {[kind |-> k] : k \in {"not_installed", "raises", "timeout", "no_content"}}
  \cup {[kind |-> "text", text |-> t] :
          t \in {"YES", " yes.\n", "Yes, it is.", "NO", "No.", "", "Maybe",
                 "{'answer': true}"}}

\* config.llm_enabled is off: the capability is not asked.
NotAsked == [kind |-> "not_asked"]

\* _llm_verify_article: True for an answer that begins with YES once it is
\* stripped and upper-cased; every exception gives False.
_llm_verify_article(response) ==
  IF response.kind # "text" THEN FALSE
  ELSE StartsWith(Upper(Strip(response.text)), "YES")

\* _verify_article; response is what the LLM capability does if the
\* configuration enables it.
_verify_article(article, company_name, homepage_url, llm_on, response) ==
  Verification(DomainMatch(article, homepage_url),
               NameContext(article, company_name),
               llm_on /\ _llm_verify_article(response))

\* The validators of NewsArticle: a title of 1 to 500 characters and a URL
\* with a scheme and a network location.
ValidNewsArticle(title, content_url) ==
  /\ Len(title) >= 1
  /\ Len(title) <= 500
  /\ Find(content_url, "://", 0) > 0
  /\ Netloc(content_url) # ""

\* NewsArticle(...) as search_news_for_company fills it.
NewsArticle(article, verification, sig_result) ==
  [title |-> Slice(article.title, 0, 500),
   content_url |-> article.url,
   source |-> RemovePrefix(Netloc(article.url), "www."),
   snippet |-> article.snippet,
   match_confidence |-> verification.confidence,
   match_evidence |-> verification.evidence,
   significance_classification |-> sig_result.classification,
   significance_sentiment |-> sig_result.sentiment,
   significance_confidence |-> sig_result.confidence]

\* db.article_url_exists
article_url_exists(url) ==
  \E i \in 1..Len(news_articles) : news_articles[i].content_url = url

\* The rest of an iteration once the article is verified: the threshold, the
\* significance analysis, the NewsArticle and its storage.
StoreIfRelevant(index, article, response, verification) ==
  IF verification.confidence < VERIFICATION_THRESHOLD
  THEN /\ news_locals' = [article |-> index, outcome |-> "rejected",
                          confidence |-> verification.confidence,
                          evidence |-> verification.evidence,
                          response |-> response]
       /\ UNCHANGED <<news_articles, articles_stored>>
  ELSE IF ~ValidNewsArticle(Slice(article.title, 0, 500), article.url)
  THEN /\ news_locals' = [article |-> index, outcome |-> "raised",
                          confidence |-> verification.confidence,
                          evidence |-> verification.evidence,
                          response |-> response]
       /\ UNCHANGED <<news_articles, articles_stored>>
  ELSE /\ news_locals' = [article |-> index, outcome |-> "stored",
                          confidence |-> verification.confidence,
                          evidence |-> verification.evidence,
                          response |-> response]
       /\ news_articles' =
            Append(news_articles,
                   NewsArticle(article, verification,
                               analyze_significance(article.title \o " " \o article.snippet,
                                                    "moderate", hash_seed)))
       /\ articles_stored' = articles_stored + 1

\* What a search returns: the company named with a business word, the
\* company's domain alone, both, neither, and both without a title.
Articles ==
  {[title |-> "Acme raises funding",
    url |-> "https://news.example.com/acme",
    snippet |-> "Acme raised a Series B round"],
   [title |-> "Latest post",
    url |-> "https://acme.com/blog",
    snippet |-> "Read our latest post"],
   [title |-> "Acme expands",
    url |-> "https://techcrunch.com/acme",
    snippet |-> "Acme announced growth, see acme.com"],
   [title |-> "Weather",
    url |-> "https://notacme.com/x",
    snippet |-> "Rain over the hills"],
   [title |-> "",
    url |-> "https://acme.com/press",
    snippet |-> "Acme launched a product"]}

\* A row the table holds from an earlier run.
EarlierRow ==
  [title |-> "Acme expands",
   content_url |-> "https://techcrunch.com/acme",
   source |-> "techcrunch.com",
   snippet |-> "Acme announced growth, see acme.com",
   match_confidence |-> 45,
   match_evidence |-> <<"domain_match", "name_context">>,
   significance_classification |-> "uncertain",
   significance_sentiment |-> "positive",
   significance_confidence |-> 60]

InitNews ==
  /\ news_company \in {[name |-> "Acme", homepage_url |-> h] :
                         h \in {"https://www.acme.com/", ""}}
  /\ llm_enabled \in BOOLEAN
  /\ raw_results \in Rosters(Articles, MaxArticles)
  /\ news_next = 1
  /\ news_articles \in {<<>>, <<EarlierRow>>}
  /\ articles_stored = 0
  /\ news_locals = NoArticle
  /\ IdleSignificance
  /\ IdleCalls
  /\ IdleMagnitude
  /\ IdleChangeDetection
  /\ IdleLeadership
  /\ IdleLlm
  /\ IdleRetry
  /\ IdleExtraction

\* One iteration of the loop over raw_results; a NewsArticle that fails its
\* validation raises out of the function.
SearchNewsArticle ==
  /\ news_next <= Len(raw_results)
  /\ news_locals.outcome # "raised"
  /\ IF article_url_exists(raw_results[news_next].url)
     THEN /\ news_locals' = [article |-> news_next, outcome |-> "duplicate"]
          /\ UNCHANGED <<news_articles, articles_stored>>
     ELSE \E response \in (IF llm_enabled THEN ArticleResponses ELSE {NotAsked}) :
            StoreIfRelevant(news_next, raw_results[news_next], response,
                            _verify_article(raw_results[news_next],
                                            news_company.name,
                                            news_company.homepage_url,
                                            llm_enabled, response))
  /\ news_next' = news_next + 1
  /\ UNCHANGED <<news_company, llm_enabled, raw_results, sigVars, callVars,
                 magVars, cdVars, ldVars, llmVars, retryVars, elVars>>

NextNews == SearchNewsArticle

SpecNews == InitNews /\ [][NextNews]_vars

\* C20: an article for which the domain match is the only signal that fires
\* has a confidence of at least 0.30 and below 0.40 and is rejected (nothing
\* is stored for it); an article for which the domain match and the name in
\* business context both fire has a confidence of at least 0.40 and passes
\* the threshold.
C20_DomainAloneRejected ==
  news_locals.outcome \in {"rejected", "stored", "raised"} =>
    /\ news_locals.evidence = <<"domain_match">> =>
         /\ news_locals.confidence >= 30
         /\ news_locals.confidence < 40
         /\ news_locals.outcome = "rejected"
    /\ (\E i, j \in 1..Len(news_locals.evidence) :
          /\ news_locals.evidence[i] = "domain_match"
          /\ news_locals.evidence[j] = "name_context") =>
         /\ news_locals.confidence >= 40
         /\ news_locals.outcome # "rejected"

\* The domain match and the name in context alone: confidence 0.45, stored.
C20_Witness ==
  /\ news_locals.outcome = "stored"
  /\ news_locals.evidence = <<"domain_match", "name_context">>
  /\ news_articles[Len(news_articles)].content_url = raw_results[news_locals.article].url
  /\ news_articles[Len(news_articles)].match_confidence = 45

(***************************************************************************)
(* significance.py: validate_with_llm.  The reply of the LLM capability is *)
(* modelled by what the function makes of it: no reply at all (the         *)
(* package is missing, the client raises or times out, the response has no *)
(* content block), a text that holds no {...}, a text whose {...} does not *)
(* decode, or a text whose {...} decodes to an object.  A key the object   *)
(* lacks has the value Missing.                                            *)
(***************************************************************************)
Missing == "<missing>"

SignificanceClassification == {"significant", "insignificant", "uncertain"}

SignificanceSentiment == {"positive", "negative", "neutral", "mixed"}

\* A JSON number, in hundredths.
Number(n) == [type |-> "number", value |-> n]

\* The objects a reply decodes to: the three required keys, each present
\* with a valid or an invalid value, or absent.  A confidence is a number, a
\* string that is no number, or absent.
Replies ==
  [classification : {"significant", "critical", Missing},
   sentiment : {"negative", "bullish"},
   confidence : {Number(n) : n \in {-10, 0, 85, 100, 150}}
                \cup {[type |-> "string", text |-> "high"], [type |-> Missing]}]

LlmResponses ==
  {[kind |-> k] : k \in {"not_installed", "raises", "timeout", "no_content"}}
  \cup {[kind |-> "text", json |-> j] : j \in {"absent", "undecodable"}}
  \cup {[kind |-> "text", json |-> "object", data |-> d] : d \in Replies}

\* Field(ge=0, le=1) dropped from the confidence of LLMValidationResult.
ValidLLMValidationResultUnbounded(data) ==
  /\ data.classification \in SignificanceClassification
  /\ data.sentiment \in SignificanceSentiment
  /\ data.confidence.type = "number"

\* The validation of LLMValidationResult(**data).
ValidLLMValidationResult(data) ==
  /\ data.classification \in SignificanceClassification
  /\ data.sentiment \in SignificanceSentiment
  /\ data.confidence.type = "number"
  /\ data.confidence.value >= 0
  /\ data.confidence.value <= 100

None == [returned |-> "None"]

LLMValidationResult(data) ==
  [returned |-> "LLMValidationResult",
   classification |-> data.classification,
   sentiment |-> data.sentiment,
   confidence |-> data.confidence.value,
   reasoning |-> "",
   validated_keywords |-> <<>>,
   false_positives |-> <<>>]

\* validate_with_llm: None unless the reply holds an object that
\* LLMValidationResult accepts; every exception is logged and gives None.
validate_with_llm(response) ==
  IF response.kind # "text" THEN None
  ELSE IF response.json # "object" THEN None
  ELSE IF ~ValidLLMValidationResult(response.data) THEN None
  ELSE LLMValidationResult(response.data)

\* The keyword-based results handed to validate_with_llm.
KeywordResults ==
  {analyze_significance(text, "moderate", 0) :
     text \in {"layoffs and bankruptcy", "nothing new"}}

\* One call of validate_with_llm and one run of search_news_for_company
\* over one search result.
InitLlm ==
  /\ keyword_result \in KeywordResults
  /\ llm_response \in LlmResponses
  /\ llm_validation = NotValidated
  /\ news_company \in {[name |-> "Acme", homepage_url |-> h] :
                         h \in {"https://www.acme.com/", ""}}
  /\ llm_enabled \in BOOLEAN
  /\ raw_results \in {<<a>> : a \in Articles}
  /\ news_next = 1
  /\ news_articles = <<>>
  /\ articles_stored = 0
  /\ news_locals = NoArticle
  /\ IdleSignificance
  /\ IdleCalls
  /\ IdleMagnitude
  /\ IdleChangeDetection
  /\ IdleLeadership
  /\ IdleRetry
  /\ IdleExtraction

ValidateWithLlm ==
  /\ llm_validation = NotValidated
  /\ llm_response.kind # "none"
  /\ llm_validation' = validate_with_llm(llm_response)
  /\ UNCHANGED <<keyword_result, llm_response, sigVars, callVars, magVars,
                 cdVars, ldVars, newsVars, retryVars, elVars>>

NextLlm == ValidateWithLlm \/ SearchNewsArticle

SpecLlm == InitLlm /\ [][NextLlm]_vars

\* The capability gave validate_with_llm nothing it can use: it is
\* unavailable, raised, timed out, or answered without a well-formed object
\* whose values are in range.
FailedValidation(response) ==
  \/ response.kind \in {"not_installed", "raises", "timeout", "no_content"}
  \/ response.json \in {"absent", "undecodable"}
  \/ response.data.classification \notin {"significant", "insignificant", "uncertain"}
  \/ response.data.sentiment \notin {"positive", "negative", "neutral", "mixed"}
  \/ response.data.confidence \notin {Number(n) : n \in 0..100}

\* The capability gave _verify_article no affirmative answer: it is
\* unavailable, raised, timed out, or its answer is not a YES.
FailedVerification(response) ==
  \/ response.kind \in {"not_installed", "raises", "timeout", "no_content"}
  \/ /\ response.kind = "text"
     /\ response.text \in {"NO", "No.", "", "Maybe", "{'answer': true}"}

Verified == news_locals.outcome \in {"rejected", "stored", "raised"}

\* C21: the advisory capabilities fail open.  When the LLM capability is
\* unavailable, raises, times out or answers with something malformed or out
\* of range, validate_with_llm returns None (it never raises) and leaves the
\* keyword-based result as it was, and _verify_article gives the evidence of
\* the other signals and their confidence alone, with no error.
C21_FailOpen ==
  /\ [](/\ (llm_validation # NotValidated /\ FailedValidation(llm_response)) =>
             llm_validation = None
        /\ (Verified /\ llm_enabled /\ FailedVerification(news_locals.response)) =>
             /\ news_locals.evidence =
                  SelectSeq(<<"domain_match", "name_context">>,
                            LAMBDA e :
                              \/ /\ e = "domain_match"
                                 /\ DomainMatch(raw_results[1], news_company.homepage_url)
                              \/ /\ e = "name_context"
                                 /\ NameContext(raw_results[1], news_company.name))
             /\ news_locals.confidence =
                  (IF DomainMatch(raw_results[1], news_company.homepage_url) THEN 30 ELSE 0)
                  + (IF NameContext(raw_results[1], news_company.name) THEN 15 ELSE 0))
  /\ [][keyword_result' = keyword_result]_vars

\* An out-of-range confidence in the reply gave None, and an article was
\* stored on its other signals although the capability timed out.
C21_Witness ==
  /\ llm_validation = None
  /\ llm_response.kind = "text"
  /\ llm_response.json = "object"
  /\ llm_response.data.classification = "significant"
  /\ llm_response.data.sentiment = "negative"
  /\ llm_response.data.confidence = Number(150)
  /\ keyword_result.classification = "significant"
  /\ news_locals.outcome = "stored"
  /\ news_locals.response.kind = "timeout"
  /\ news_locals.confidence = 45

(***************************************************************************)
(* Claims on detect_leadership_changes, continued.                         *)
(***************************************************************************)
\* The records of a previous roster that have a profile URL.
IdentifiedPrevious ==
  SelectSeq(previous, LAMBDA l : l.linkedin_profile_url # "")

\* The records of a current roster that have a profile URL.
IdentifiedCurrent == SelectSeq(current, LAMBDA r : r.profile_url # "")

\* C22: records without a profile URL are ignored by the diff.  The returned
\* list is the one the rosters give once every record without a URL is
\* removed from them; a previous roster with no URL at all gives no
\* departure, a current roster with no URL at all gives no arrival, and two
\* rosters whose records with a URL hold the same URLs give no_change
\* whatever records without a URL they hold besides.
C22_NoIdentifierIgnored ==
  Returned =>
    /\ changes = detect_leadership_changes(IdentifiedPrevious, IdentifiedCurrent)
    /\ IdentifiedPrevious = <<>> => DepartureRecords = {}
    /\ IdentifiedCurrent = <<>> => ArrivalRecords = {}
    /\ PreviousIds = CurrentIds => changes = <<NoChange>>

\* A record without a URL on each side, next to one person under the same
\* URL on both sides: no_change.
C22_Witness ==
  /\ Returned
  /\ Len(previous) = 2
  /\ Len(current) = 2
  /\ Len(IdentifiedPrevious) = 1
  /\ Len(IdentifiedCurrent) = 1
  /\ PreviousIds = CurrentIds
  /\ changes = <<NoChange>>

(***************************************************************************)
(* Claims on analyze_significance, continued.                              *)
(***************************************************************************)
\* C23: in every result of analyze_significance, under every rule of the
\* cascade, no category name occurs more than once in matched_categories.
C23_CategoriesAreASet ==
  pc = "done" =>
    \A i, j \in 1..Len(result.matched_categories) :
      result.matched_categories[i] = result.matched_categories[j] => i = j

(***************************************************************************)
(* retry.py: is_retryable_error and with_retry.  An exception is a record  *)
(* with the name of its class; isinstance looks the class up among the     *)
(* bases of that class.  The decorator of tenacity is modelled by its      *)
(* loop: call, and on an exception stop unless the retry predicate holds   *)
(* and attempts are left, re-raising the exception of the last attempt     *)
(* (reraise=True).                                                         *)
(***************************************************************************)
\* The largest max_attempts, and the number of invocations whose behaviour
\* is laid down beforehand.
MaxAttempts == 3

RETRYABLE_STATUS_CODES == {429, 500, 502, 503, 504}

\* The classes an exception class derives from, itself included.
Bases(type) ==
  {type, "Exception"}
  \cup (IF type \in {"ValidationError", "JSONDecodeError"} THEN {"ValueError"} ELSE {})
  \cup (IF type \in {"ConnectionError", "TimeoutError"} THEN {"OSError"} ELSE {})

\* isinstance(exc, types)
IsInstance(exc, types) == Bases(exc.type) \cap types # {}

\* The classification with every HTTP status error held to be transient.
is_retryable_error_any_status(exc) ==
  IF IsInstance(exc, {"ValidationError", "ValueError", "TypeError"}) THEN FALSE
  ELSE IF IsInstance(exc, {"AuthenticationError"}) THEN FALSE
  ELSE IF IsInstance(exc, {"ConnectionError", "TimeoutError", "OSError"}) THEN TRUE
  ELSE IsInstance(exc, {"HTTPStatusError"})

is_retryable_error(exc) ==
  IF IsInstance(exc, {"ValidationError", "ValueError", "TypeError"}) THEN FALSE
  ELSE IF IsInstance(exc, {"AuthenticationError"}) THEN FALSE
  ELSE IF IsInstance(exc, {"ConnectionError", "TimeoutError", "OSError"}) THEN TRUE
  ELSE IF IsInstance(exc, {"HTTPStatusError"})
  THEN exc.status_code \in RETRYABLE_STATUS_CODES
  ELSE FALSE

\* The wrapped function returns.
Ok == [type |-> "ok"]

Raise(type) == [type |-> type]

HTTPStatusError(status_code) ==
  [type |-> "HTTPStatusError", status_code |-> status_code]

\* What one invocation of the wrapped function does.
Outcomes ==
  {Ok}
  \cup {Raise(t) : t \in {"ValidationError", "ValueError", "TypeError",
                          "AuthenticationError", "ConnectionError",
                          "TimeoutError", "RuntimeError"}}
  \cup {HTTPStatusError(c) : c \in {429, 500, 502, 503, 504, 401, 404}}

ReturnedValue == [kind |-> "returned"]

Raised(exc) == [kind |-> "raised", exc |-> exc]

\* How an invocation that raised exc as attempt number n ends the call, if
\* it does: without the decorator (max_attempts <= 0) the exception goes
\* through; with it, the call goes on only after a retryable error with
\* attempts left.
AfterException(exc, n) ==
  IF max_attempts <= 0 THEN Raised(exc)
  ELSE IF ~is_retryable_error(exc) THEN Raised(exc)
  ELSE IF n >= max_attempts THEN Raised(exc)
  ELSE Running

InitRetry ==
  /\ max_attempts \in -1..MaxAttempts
  /\ fn_outcomes \in [1..MaxAttempts -> Outcomes]
  /\ attempt_number = 0
  /\ retry_outcome = Running
  /\ IdleSignificance
  /\ IdleCalls
  /\ IdleMagnitude
  /\ IdleChangeDetection
  /\ IdleLeadership
  /\ IdleNews
  /\ IdleLlm
  /\ IdleExtraction

\* One invocation of the wrapped function and what the decorator makes of
\* it.
Attempt ==
  /\ retry_outcome = Running
  /\ attempt_number < MaxAttempts
  /\ attempt_number' = attempt_number + 1
  /\ retry_outcome' =
       IF fn_outcomes[attempt_number'] = Ok THEN ReturnedValue
       ELSE AfterException(fn_outcomes[attempt_number'], attempt_number')
  /\ UNCHANGED <<max_attempts, fn_outcomes, sigVars, callVars, magVars,
                 cdVars, ldVars, newsVars, llmVars, elVars>>

NextRetry == Attempt

SpecRetry == InitRetry /\ [][NextRetry]_vars

\* The errors the claim names non-retryable.
NamedNonRetryable(exc) ==
  \/ exc.type \in {"ValidationError", "ValueError", "TypeError", "AuthenticationError"}
  \/ /\ exc.type = "HTTPStatusError"
     /\ exc.status_code \notin {429, 500, 502, 503, 504}

Failed(i) == fn_outcomes[i] # Ok

\* C24: a call wrapped by with_retry(n), n >= 1, invokes the function at
\* most n times; it returns at the first success; an error that
\* is_retryable_error holds non-retryable (validation, value, type and
\* authentication errors and HTTP statuses outside 429/500/502/503/504 are
\* such) ends the call at once with that error; a further invocation is made
\* only after a retryable error; after n failed invocations the last error
\* is raised.  With n <= 0 the function is invoked exactly once.
C24_AtMostNAttempts ==
  /\ \A exc \in Outcomes \ {Ok} : NamedNonRetryable(exc) => ~is_retryable_error(exc)
  /\ max_attempts >= 1 =>
       /\ attempt_number <= max_attempts
       /\ \A i \in 1..(attempt_number - 1) :
            Failed(i) /\ is_retryable_error(fn_outcomes[i])
       /\ retry_outcome = ReturnedValue => ~Failed(attempt_number)
       /\ (attempt_number >= 1 /\ ~Failed(attempt_number)) => retry_outcome = ReturnedValue
       /\ (attempt_number >= 1 /\ Failed(attempt_number)
           /\ ~is_retryable_error(fn_outcomes[attempt_number])) =>
            retry_outcome = Raised(fn_outcomes[attempt_number])
       /\ (attempt_number = max_attempts /\ Failed(attempt_number)) =>
            retry_outcome = Raised(fn_outcomes[attempt_number])
       /\ (attempt_number >= 1 /\ retry_outcome = Running) =>
            /\ Failed(attempt_number)
            /\ is_retryable_error(fn_outcomes[attempt_number])
            /\ attempt_number < max_attempts
  /\ max_attempts <= 0 =>
       /\ attempt_number <= 1
       /\ attempt_number = 1 =>
            retry_outcome = IF Failed(1) THEN Raised(fn_outcomes[1]) ELSE ReturnedValue

\* with_retry(3): a timeout, then a 503, then a 404, which is raised.
C24_Witness ==
  /\ max_attempts = 3
  /\ attempt_number = 3
  /\ fn_outcomes[1] = Raise("TimeoutError")
  /\ fn_outcomes[2] = HTTPStatusError(503)
  /\ fn_outcomes[3] = HTTPStatusError(404)
  /\ retry_outcome = Raised(HTTPStatusError(404))

(***************************************************************************)
(* Claims on detect_changes, continued.                                    *)
(***************************************************************************)
\* C29: every stored change record of two snapshots with equal checksums
\* (has_changed = false) has magnitude minor and the significance
\* classification insignificant.
C29_UnchangedIsInsignificant ==
  \A i \in 1..Len(change_records) :
    ~change_records[i].has_changed =>
      /\ change_records[i].checksum_old = change_records[i].checksum_new
      /\ change_records[i].change_magnitude = "minor"
      /\ change_records[i].significance_classification = "insignificant"

\* The companies the loop has handled so far.
Handled == 1..(cd_next - 1)

\* The handled companies that have two snapshots.
WithTwoSnapshots ==
  {c \in Handled : snapshots[c].old.exists /\ snapshots[c].new.exists}

\* C30: the counters of detect_changes account for every company.  After
\* any number of iterations, skipped + successful + failed is the number of
\* companies handled and processed is the number of them that have two
\* snapshots; every failure is counted once in failed with one entry in
\* errors, every success has its stored record, and a failure leaves the
\* loop going: the companies after it are handled and counted as well, so at
\* the end of the run the sums are those of all the companies.
C30_CounterAccounting ==
  /\ cd_next <= Len(snapshots) + 1
  /\ cd_result.skipped + cd_result.successful + cd_result.failed
       = Cardinality(Handled)
  /\ cd_result.processed = Cardinality(WithTwoSnapshots)
  /\ Len(cd_result.errors) = cd_result.failed
  /\ Len(change_records) = cd_result.successful
  /\ \A i \in 1..Len(cd_result.errors) :
       /\ cd_result.errors[i].company \in WithTwoSnapshots
       /\ \A j \in 1..Len(cd_result.errors) :
            cd_result.errors[i].company = cd_result.errors[j].company => i = j
       /\ RecordsOf(cd_result.errors[i].company) = {}
  /\ (Iterated /\ cd_locals.outcome = "failed") =>
       /\ cd_result.failed >= 1
       /\ cd_result.errors[Len(cd_result.errors)].company = cd_locals.company

\* The first company failed and the second one was processed and stored.
C30_Witness ==
  /\ Len(snapshots) = 2
  /\ cd_next = 3
  /\ cd_result.processed = 2
  /\ cd_result.failed = 1
  /\ cd_result.successful = 1
  /\ cd_result.skipped = 0
  /\ cd_result.errors = <<[company |-> 1]>>
  /\ RecordsOf(2) # {}
  /\ cd_locals.outcome = "successful"

\* C28: a CEO is recognised alike on both sides of the diff.  Whenever a
\* person departs and a person arrives under one and the same title, the
\* departure is a ceo_departure if and only if the arrival is a new_ceo.
C28_CeoRecognisedAlike ==
  Returned =>
    \A i \in DepartureRecords, j \in ArrivalRecords :
      changes[i].title = changes[j].title =>
        (changes[i].change_type = "ceo_departure"
           <=> changes[j].change_type = "new_ceo")

(***************************************************************************)
(* leadership.py: extract_leadership_for_company for one company that the  *)
(* database holds, with the table company_leadership of database.py.  A    *)
(* run is one action.  Every extracted person has a name, so that building *)
(* the CompanyLeadership of a person raises nothing.                       *)
(***************************************************************************)
\* The number of runs, at most.
MaxRuns == 4

\* The number of people an extraction returns, at most.
MaxLeaders == 2

\* is_leadership_title: some pattern of the list matches.
is_leadership_title(title) == extract_leadership_title(title) # "None"

\* The row store_leadership inserts for a person of the roster.
LeadershipRow(leader_data, method_used) ==
  [person_name |-> leader_data.name,
   title |-> normalize_title(leader_data.title),
   linkedin_profile_url |-> leader_data.profile_url,
   discovery_method |-> IF method_used # "" THEN method_used
                        ELSE "playwright_scrape",
   confidence |-> IF method_used = "playwright_scrape" THEN 80 ELSE 60,
   is_current |-> TRUE]

\* Database.store_leadership: the INSERT, which UNIQUE(company_id,
\* linkedin_profile_url) turns into nothing for a URL the table holds.
store_leadership(table, row) ==
  IF \E i \in 1..Len(table) :
       table[i].linkedin_profile_url = row.linkedin_profile_url
  THEN table
  ELSE Append(table, row)

RECURSIVE StoreLeaders(_, _, _, _)
\* The loop that stores the leaders from the i-th on.
StoreLeaders(table, leadership_leaders, method_used, i) ==
  IF i > Len(leadership_leaders) THEN table
  ELSE StoreLeaders(
         IF /\ leadership_leaders[i].profile_url # ""
            /\ Contains(leadership_leaders[i].profile_url, "/in/")
         THEN store_leadership(table, LeadershipRow(leadership_leaders[i],
                                                    method_used))
         ELSE table,
         leadership_leaders, method_used, i + 1)

\* The rows with is_current = 1.
CurrentRows(table) == SelectSeq(table, LAMBDA row : row.is_current)

\* _row_to_leadership over a list of rows.
RowsToLeadership(rows) ==
  [i \in 1..Len(rows) |->
     CompanyLeadership(rows[i].person_name, rows[i].title,
                       rows[i].linkedin_profile_url)]

\* Database.get_leadership_for_company(company_id, current_only=True)
get_leadership_for_company(table) == RowsToLeadership(CurrentRows(table))

IsDeparture(change) ==
  change.change_type \in {"ceo_departure", "founder_departure",
                          "cto_departure", "coo_departure",
                          "executive_departure"}

\* The loop that applies the changes: for every departure, every previous
\* leader with the person_name of the change and a URL is marked not
\* current (Database.mark_leadership_not_current, by the URL).
MarkDeparted(table, detected, previous_list) ==
  [i \in 1..Len(table) |->
     IF \E c \in 1..Len(detected), p \in 1..Len(previous_list) :
          /\ IsDeparture(detected[c])
          /\ previous_list[p].person_name = detected[c].person_name
          /\ previous_list[p].linkedin_profile_url # ""
          /\ previous_list[p].linkedin_profile_url = table[i].linkedin_profile_url
     THEN [table[i] EXCEPT !.is_current = FALSE]
     ELSE table[i]]

\* The Kagi fallback, given what the Playwright step left.
KagiFallback(found, method_used, kagi_available, kagi) ==
  IF found = <<>> /\ kagi_available
  THEN IF kagi.kind = "returned"
       THEN [leaders |-> kagi.leaders, method_used |-> "kagi_search",
             errors |-> <<>>]
       ELSE [leaders |-> found, method_used |-> method_used,
             errors |-> <<"Kagi fallback failed">>]
  ELSE [leaders |-> found, method_used |-> method_used, errors |-> <<>>]

\* The two extraction steps: Playwright if the company has a LinkedIn URL,
\* then Kagi if nothing was found and Kagi is available.
Extract(linkedin_url, playwright, kagi_available, kagi) ==
  IF linkedin_url /\ playwright.kind = "returned"
  THEN KagiFallback(playwright.leaders, "playwright_scrape", kagi_available, kagi)
  ELSE KagiFallback(<<>>, "", kagi_available, kagi)

\* Who an extraction finds: two people of one display name, and an employee
\* who is no leader.
People ==
  {Person("Sam Lee", "CEO", "https://linkedin.com/in/a"),
   Person("Sam Lee", "CTO", "https://linkedin.com/in/b"),
   Person("Eve Poe", "Engineer", "https://linkedin.com/in/e")}

\* The lists of up to MaxLeaders different people.
Extracted ==
  {r \in Rosters(People, MaxLeaders) :
     \A i, j \in 1..Len(r) : r[i] = r[j] => i = j}

\* What an extraction method does: it returns a list, LinkedIn blocks it, or
\* it fails.
MethodOutcomes ==
  {[kind |-> "returned", leaders |-> r] : r \in Extracted}
  \cup {[kind |-> "blocked"], [kind |-> "failed"]}

\* Everything the two extraction steps can leave behind.
Extractions ==
  {Extract(linkedin_url, playwright, kagi_available, kagi) :
     linkedin_url \in BOOLEAN, playwright \in MethodOutcomes,
     kagi_available \in BOOLEAN, kagi \in MethodOutcomes \ {[kind |-> "blocked"]}}

LeadershipExtractionResult(found, method_used, detected, errors) ==
  [leaders_found |-> Len(found),
   method_used |-> method_used,
   leadership_changes |-> detected,
   errors |-> errors]

\* The run once the changes are detected.
ApplyChanges(extraction, leadership_leaders, previous_list, detected) ==
  /\ company_leadership' =
       MarkDeparted(StoreLeaders(company_leadership, leadership_leaders,
                                 extraction.method_used, 1),
                    detected, previous_list)
  /\ extraction_result' =
       LeadershipExtractionResult(leadership_leaders, extraction.method_used,
                                  detected, extraction.errors)

\* The run once the extracted list is filtered to the leadership titles.
StoreAndDetect(extraction, leadership_leaders, previous_list) ==
  /\ ApplyChanges(extraction, leadership_leaders, previous_list,
                  detect_leadership_changes(previous_list, leadership_leaders))
  /\ last_leaders' = SelectSeq(leaders, LAMBDA l : is_leadership_title(l.title))
  /\ leaders' = extraction.leaders
  /\ previous_leaders' = previous_list

InitExtraction ==
  /\ company_leadership = <<>>
  /\ last_leaders = <<>>
  /\ leaders = <<>>
  /\ extraction_result = NotExtracted
  /\ previous_leaders = <<>>
  /\ runs = 0
  /\ IdleSignificance
  /\ IdleCalls
  /\ IdleMagnitude
  /\ IdleChangeDetection
  /\ IdleLeadership
  /\ IdleNews
  /\ IdleLlm
  /\ IdleRetry

\* One run of extract_leadership_for_company.
ExtractLeadershipForCompany ==
  /\ runs < MaxRuns
  /\ runs' = runs + 1
  /\ \E extraction \in Extractions :
       StoreAndDetect(extraction,
                      SelectSeq(extraction.leaders,
                                LAMBDA l : is_leadership_title(l.title)),
                      get_leadership_for_company(company_leadership))
  /\ UNCHANGED <<sigVars, callVars, magVars, cdVars, ldVars, newsVars,
                 llmVars, retryVars>>

NextExtraction == ExtractLeadershipForCompany

SpecExtraction == InitExtraction /\ [][NextExtraction]_vars

(***************************************************************************)
(* What the properties of extract_leadership_for_company speak of.         *)
(***************************************************************************)
\* leadership_leaders of the latest run.
LeadershipLeaders == SelectSeq(leaders, LAMBDA l : is_leadership_title(l.title))

\* The profile identifiers of the current roster of the latest run.
RosterIds ==
  {LeadershipLeaders[i].profile_url : i \in 1..Len(LeadershipLeaders)} \ {""}

\* The row of the table with a profile URL is current.
IsCurrent(url) ==
  \E i \in 1..Len(company_leadership) :
    /\ company_leadership[i].linkedin_profile_url = url
    /\ company_leadership[i].is_current

\* C25: run stability.  When the latest run and the run before it extracted
\* the same leadership roster, the latest run reports only no_change,
\* whatever runs came before.
C25_SecondRunReportsNoChange ==
  (runs >= 2 /\ last_leaders = LeadershipLeaders) =>
    extraction_result.leadership_changes = <<NoChange>>

\* C26: after a run, a leader who was current at its start is marked not
\* current if and only if their profile identifier is absent from the
\* current roster; a leader whose identifier is present stays current, also
\* when a departed leader has the same display name.
C26_MarkedIffIdentifierAbsent ==
  runs >= 1 =>
    \A p \in 1..Len(previous_leaders) :
      ~IsCurrent(previous_leaders[p].linkedin_profile_url)
        <=> previous_leaders[p].linkedin_profile_url \notin RosterIds

\* C27: a run in which no extraction method succeeded (each one failed, was
\* blocked or was unavailable, so that there are no candidate records)
\* reports no departure and marks no leader who was current at its start as
\* not current.
C27_FailedScrapeIsNoDeparture ==
  (runs >= 1 /\ extraction_result.method_used = "" /\ leaders = <<>>) =>
    /\ \A c \in 1..Len(extraction_result.leadership_changes) :
         ~IsDeparture(extraction_result.leadership_changes[c])
    /\ \A p \in 1..Len(previous_leaders) :
         IsCurrent(previous_leaders[p].linkedin_profile_url)

=============================================================================
